---- MODULE Spec2Model ----
(***************************************************************************)
(* Receipt extraction, validation and normalization pipeline of            *)
(* reimburse-ai: lib/ocrProcessing (src/unnamed/part_000) and the          *)
(* synchronous OCR route that calls it (src/unnamed/part_001).             *)
(*                                                                         *)
(* Conventions of the model                                                *)
(*   - a JavaScript string is a TLA+ string; characters are read with      *)
(*     SubSeq, so every regular expression of the source is matched        *)
(*     character by character;                                             *)
(*   - a Date is its instant in whole hours since 1970-01-01T00:00Z, or    *)
(*     NaNDate for an Invalid Date; tz is the server's offset from UTC in  *)
(*     hours (local time = instant + tz);                                  *)
(*   - a JavaScript number holding an amount is an integer number of cents *)
(*     or one of PosInf, NegInf, NaN.                                      *)
(***************************************************************************)
EXTENDS Integers, Sequences, FiniteSets, TLC

VARIABLES
    now,        \* instant of the request (new Date()), hours since the epoch
    tz,         \* offset of the server's local time from UTC, in hours
    filename,   \* the filename handed to aiOCRExtraction
    pc,         \* position of the request in the route handler
    reply,      \* the model reply that was parsed, or NoReply
    lenientEng, \* how the engine's native Date parser treated the reply date
    path,       \* "none", "vision" or "fallback": which path built the record
    extracted,  \* the ExtractedData record aiOCRExtraction returned, or NoRecord
    failure,    \* what failed inside aiOCRExtraction's try block, or "none"
    thrown,     \* TRUE when aiOCRExtraction let an error escape to its caller
    modelCalls, \* number of calls of the external model in this request
    response,   \* the route's response, or NoResponse
    store,      \* the receipts the record store holds
    lookup,     \* outcome of the duplicate lookup: "none", "found", "absent", "failed"
    keyManager, \* TRUE when the static KeySecurityManager.instance has been created
    mStage,     \* merchant normaliser run: 0 input chosen, 1 applied, 2 applied twice
    mIn,        \* merchant normaliser run: the input
    mOut,       \* normalizeMerchant(mIn)
    mAgain,     \* normalizeMerchant(mOut)
    fn,         \* function run: the function that was applied, or "none"
    arg,        \* function run: the arguments it was given
    result,     \* function run: what it returned
    cache,      \* queued route: the cache, a set of [key, value] entries
    queue,      \* queued route: the jobs published to the queue
    req,        \* queued route: the locals of the request
    settings,   \* company settings route: the rows of the store
    procs,      \* company settings route: the requests in progress
    nextId      \* company settings route: the id the store gives to the next row

pipeVars == <<now, tz, filename, pc, reply, lenientEng, path, extracted,
              failure, thrown, modelCalls, response, store, lookup,
              keyManager>>

merchVars == <<mStage, mIn, mOut, mAgain>>

funVars == <<fn, arg, result>>

queueVars == <<cache, queue, req>>

companyVars == <<settings, procs, nextId>>

sideVars == <<queueVars, companyVars>>

vars == <<pipeVars, merchVars, funVars, sideVars>>

-----------------------------------------------------------------------------
(* Characters and strings                                                  *)

Char(s, i) == SubSeq(s, i, i)

\* The one element of a singleton. A local constant of the source
\* (const x = e; ... x ... x ...) is written Only({ body : x \in {e} }): the
\* bound x holds the value of e, computed once, as the constant does.
Only(S) == CHOOSE x \in S : TRUE

\* the least member of a nonempty set of integers
Min(S) == CHOOSE i \in S : \A j \in S : i <= j

Digits == {"0", "1", "2", "3", "4", "5", "6", "7", "8", "9"}

IsDigit(c) == c \in Digits

DigitValues ==
    ("0" :> 0) @@ ("1" :> 1) @@ ("2" :> 2) @@ ("3" :> 3) @@ ("4" :> 4) @@
    ("5" :> 5) @@ ("6" :> 6) @@ ("7" :> 7) @@ ("8" :> 8) @@ ("9" :> 9)

DigitVal(c) == DigitValues[c]

DigitChars == <<"0", "1", "2", "3", "4", "5", "6", "7", "8", "9">>

LowerChars == "abcdefghijklmnopqrstuvwxyz"

UpperChars == "ABCDEFGHIJKLMNOPQRSTUVWXYZ"

LowerSet == { Char(LowerChars, k) : k \in 1..26 }

UpperSet == { Char(UpperChars, k) : k \in 1..26 }

UpperOf ==
    [c \in LowerSet |-> Char(UpperChars, CHOOSE k \in 1..26 : Char(LowerChars, k) = c)]

LowerOf ==
    [c \in UpperSet |-> Char(LowerChars, CHOOSE k \in 1..26 : Char(UpperChars, k) = c)]

\* String.prototype.toUpperCase / toLowerCase on one character
ToUpperChar(c) == IF c \in LowerSet THEN UpperOf[c] ELSE c

ToLowerChar(c) == IF c \in UpperSet THEN LowerOf[c] ELSE c

RECURSIVE LowerFrom(_, _)
LowerFrom(s, i) ==
    IF i > Len(s) THEN "" ELSE ToLowerChar(Char(s, i)) \o LowerFrom(s, i + 1)

ToLowerCase(s) == LowerFrom(s, 1)

\* \s of a JavaScript regular expression (the members the inputs use)
IsSpace(c) == c \in {" ", "\t", "\n", "\r"}

\* what "." of a regular expression does not match
IsLineTerminator(c) == c \in {"\n", "\r"}

\* \w of a JavaScript regular expression
IsWordChar(c) == c \in Digits \/ c = "_" \/ c \in LowerSet \/ c \in UpperSet

AllDigits(s, i, n) ==
    /\ i >= 1
    /\ i + n - 1 <= Len(s)
    /\ \A k \in i..(i + n - 1) : IsDigit(Char(s, k))

AllSpace(s, i, j) == \A k \in i..j : IsSpace(Char(s, k))

\* ".*$" from position i: the rest of the string holds no line terminator
DotStarToEnd(s, i) == \A k \in i..Len(s) : ~IsLineTerminator(Char(s, k))

\* String.prototype.includes
Includes(s, p) ==
    \E i \in 1..(Len(s) - Len(p) + 1) : SubSeq(s, i, i + Len(p) - 1) = p

\* the first position from i on that holds no white space (Len(s) + 1 if none)
RECURSIVE FirstNonSpace(_, _)
FirstNonSpace(s, i) ==
    IF i <= Len(s) /\ IsSpace(Char(s, i)) THEN FirstNonSpace(s, i + 1) ELSE i

\* the last position up to j that holds no white space (0 if none)
RECURSIVE LastNonSpace(_, _)
LastNonSpace(s, j) ==
    IF j >= 1 /\ IsSpace(Char(s, j)) THEN LastNonSpace(s, j - 1) ELSE j

\* String.prototype.trimStart / trim
TrimLeft(s) == SubSeq(s, FirstNonSpace(s, 1), Len(s))

Trim(s) == SubSeq(s, FirstNonSpace(s, 1), LastNonSpace(s, Len(s)))

\* parseInt / Number of a string of decimal digits; n is the number of
\* digits read so far from the left
RECURSIVE NatOfPrefix(_, _)
NatOfPrefix(s, n) ==
    IF n = 0 THEN 0 ELSE 10 * NatOfPrefix(s, n - 1) + DigitVal(Char(s, n))

StrToNat(s) == NatOfPrefix(s, Len(s))

\* String(n) of a natural number
RECURSIVE NatToStr(_)
NatToStr(n) ==
    IF n < 10 THEN DigitChars[n + 1]
    ELSE NatToStr(n \div 10) \o DigitChars[(n % 10) + 1]

\* String.prototype.padStart(2, "0")
PadStart2(s) == IF Len(s) < 2 THEN "0" \o s ELSE s

-----------------------------------------------------------------------------
(* Calendar and Date                                                       *)

NaNDate == -1000000000

IsLeap(y) == (y % 4 = 0 /\ y % 100 # 0) \/ y % 400 = 0

DaysInMonth(y, m) ==
    IF m = 2 THEN (IF IsLeap(y) THEN 29 ELSE 28)
    ELSE IF m \in {4, 6, 9, 11} THEN 30 ELSE 31

\* day number (days since 1970-01-01) of the proleptic Gregorian date y-m-d
DaysFromCivil(y, m, d) ==
    LET yy  == IF m <= 2 THEN y - 1 ELSE y
        era == yy \div 400
        yoe == yy - era * 400
        mp  == IF m > 2 THEN m - 3 ELSE m + 9
        doy == ((153 * mp + 2) \div 5) + d - 1
        doe == yoe * 365 + (yoe \div 4) - (yoe \div 100) + doy
    IN  era * 146097 + doe - 719468

\* the calendar date of a day number
CivilFromDays(z) ==
    LET zz  == z + 719468
        era == zz \div 146097
        doe == zz - era * 146097
        yoe == (doe - (doe \div 1460) + (doe \div 36524) - (doe \div 146096)) \div 365
        doy == doe - (365 * yoe + (yoe \div 4) - (yoe \div 100))
        mp  == (5 * doy + 2) \div 153
        d   == doy - ((153 * mp + 2) \div 5) + 1
        m   == IF mp < 10 THEN mp + 3 ELSE mp - 9
        y   == yoe + era * 400 + (IF m <= 2 THEN 1 ELSE 0)
    IN  [y |-> y, m |-> m, d |-> d]

\* ECMAScript MakeDay(year, monthIndex, date): month and day overflow roll over
MakeDay(y, mi, d) ==
    LET ym == y + (mi \div 12)
        mn == mi % 12
    IN  DaysFromCivil(ym, mn + 1, 1) + d - 1

\* new Date(y, monthIndex, d): midnight of the server's local day
\* (a year 0..99 means 1900 + year)
NewDateLocal(y, mi, d) ==
    LET yr == IF y >= 0 /\ y <= 99 THEN 1900 + y ELSE y
    IN  MakeDay(yr, mi, d) * 24 - tz

\* the fields of the local day: getFullYear is y, getMonth is m - 1, getDate is d
LocalFields(t) == CivilFromDays((t + tz) \div 24)

GetFullYear(t) == LocalFields(t).y

\* toISOString writes the year with four digits
RECURSIVE PadStart4(_)
PadStart4(s) == IF Len(s) < 4 THEN PadStart4("0" \o s) ELSE s

\* `${year}-${String(month).padStart(2,"0")}-${String(day).padStart(2,"0")}`
FormatYMD(y, m, d) ==
    NatToStr(y) \o "-" \o PadStart2(NatToStr(m)) \o "-" \o PadStart2(NatToStr(d))

\* date.toISOString().split("T")[0]: the UTC day of the instant
ToISODate(t) ==
    Only({ PadStart4(NatToStr(c.y)) \o "-" \o PadStart2(NatToStr(c.m))
               \o "-" \o PadStart2(NatToStr(c.d))
           : c \in {CivilFromDays(t \div 24)} })

-----------------------------------------------------------------------------
(* Regular expressions over dates:                                         *)
(*   (\d{A})[seps](\d{B})[seps](\d{C})                                     *)
(* with A, B, C sets of admissible lengths. String.prototype.match takes   *)
(* the leftmost start, and at that start the longest first group, then the *)
(* longest second group, then the longest third group (greedy quantifiers  *)
(* with backtracking).                                                     *)

NoMatch == [found |-> FALSE, at |-> 0, len |-> 0, g1 |-> "", g2 |-> "", g3 |-> ""]

IsSepAt(s, k, seps) == k >= 1 /\ k <= Len(s) /\ Char(s, k) \in seps

MatchAt(s, i, seps, LA, LB, LC) ==
    { c \in LA \X LB \X LC :
        /\ AllDigits(s, i, c[1])
        /\ IsSepAt(s, i + c[1], seps)
        /\ AllDigits(s, i + c[1] + 1, c[2])
        /\ IsSepAt(s, i + c[1] + 1 + c[2], seps)
        /\ AllDigits(s, i + c[1] + c[2] + 2, c[3]) }

\* the combination the backtracking search finds first
Greediest(C) ==
    CHOOSE c \in C : \A e \in C :
        \/ c[1] > e[1]
        \/ c[1] = e[1] /\ c[2] > e[2]
        \/ c[1] = e[1] /\ c[2] = e[2] /\ c[3] >= e[3]

\* the match that starts at i with group lengths c
Groups(s, i, c) ==
    [found |-> TRUE, at |-> i, len |-> c[1] + c[2] + c[3] + 2,
     g1 |-> SubSeq(s, i, i + c[1] - 1),
     g2 |-> SubSeq(s, i + c[1] + 1, i + c[1] + c[2]),
     g3 |-> SubSeq(s, i + c[1] + c[2] + 2, i + c[1] + c[2] + c[3] + 1)]

\* the search tries the starts from i on, from left to right
RECURSIVE RegexFrom(_, _, _, _, _, _)
RegexFrom(s, i, seps, LA, LB, LC) ==
    IF i > Len(s) THEN NoMatch
    ELSE IF IsDigit(Char(s, i)) /\ MatchAt(s, i, seps, LA, LB, LC) # {}
    THEN Only({ Groups(s, i, c) : c \in {Greediest(MatchAt(s, i, seps, LA, LB, LC))} })
    ELSE RegexFrom(s, i + 1, seps, LA, LB, LC)

RegexDate(s, seps, LA, LB, LC) == RegexFrom(s, 1, seps, LA, LB, LC)

\* /(\d{1,2})\/(\d{1,2})\/(\d{4})/
ReSlashMDY(s) == RegexDate(s, {"/"}, {1, 2}, {1, 2}, {4})

\* /(\d{1,2})-(\d{1,2})-(\d{4})/
ReDashMDY(s) == RegexDate(s, {"-"}, {1, 2}, {1, 2}, {4})

\* /(\d{4})[_-](\d{1,2})[_-](\d{1,2})/
ReFileYMD(s) == RegexDate(s, {"_", "-"}, {4}, {1, 2}, {1, 2})

\* /(\d{1,2})[_-](\d{1,2})[_-](\d{4})/
ReFileMDY(s) == RegexDate(s, {"_", "-"}, {1, 2}, {1, 2}, {4})

-----------------------------------------------------------------------------
(* JavaScript values carried by the fields of the model's JSON reply       *)

Undef == [t |-> "undef", s |-> "", n |-> 0]

Str(x) == [t |-> "str", s |-> x, n |-> 0]

\* a JSON number; for an amount, n is the number of cents
Num(c) == [t |-> "num", s |-> "", n |-> c]

-----------------------------------------------------------------------------
(* Date reconciliation: validateAndFixDate and generateReasonableDate      *)

MinFilenameYear == 2020

RandomDayRange == 14

\* the ISO date-only form YYYY-MM-DD, the whole string
IsIsoDateForm(s) ==
    /\ Len(s) = 10
    /\ AllDigits(s, 1, 4) /\ Char(s, 5) = "-"
    /\ AllDigits(s, 6, 2) /\ Char(s, 8) = "-"
    /\ AllDigits(s, 9, 2)

\* the first of two regular expression results that is a match
FirstFound(a, b) == IF a.found THEN a ELSE b

\* new Date(year, monthIndex, day) from the groups of a month-day-year match
DateOfMDY(f) == NewDateLocal(StrToNat(f.g3), StrToNat(f.g1) - 1, StrToNat(f.g2))

\* new Date(string). The ISO date-only form is UTC midnight of that day. What
\* ECMAScript leaves to the engine is decided by `lenient`: a lenient engine
\* (V8) rolls a day 29..31 beyond the month's length into the next month and
\* reads M/D/YYYY and M-D-YYYY as local midnight; a strict one answers
\* Invalid Date. Every other text is an Invalid Date.
NativeParse(s, lenient) ==
    IF IsIsoDateForm(s)
    THEN Only({ IF m \in 1..12 /\ d \in 1..DaysInMonth(y, m)
                THEN DaysFromCivil(y, m, d) * 24
                ELSE IF lenient /\ m \in 1..12 /\ d \in 1..31
                THEN MakeDay(y, m - 1, d) * 24
                ELSE NaNDate
                : y \in {StrToNat(SubSeq(s, 1, 4))},
                  m \in {StrToNat(SubSeq(s, 6, 7))},
                  d \in {StrToNat(SubSeq(s, 9, 10))} })
    ELSE IF ~lenient THEN NaNDate
    ELSE Only({ IF /\ f.found /\ f.at = 1 /\ f.len = Len(s)
                   /\ StrToNat(f.g1) \in 1..12
                   /\ StrToNat(f.g2) \in 1..31
                THEN DateOfMDY(f)
                ELSE NaNDate
                : f \in {FirstFound(ReSlashMDY(s), ReDashMDY(s))} })

\* new Date(value) for a reply field: undefined gives an Invalid Date
NewDateOf(v, lenient) ==
    IF v.t = "str" THEN NativeParse(v.s, lenient) ELSE NaNDate

\* the lower end of the plausibility window:
\* new Date(today.getFullYear() - 1, today.getMonth(), today.getDate())
OneYearAgo(today) ==
    Only({ NewDateLocal(c.y - 1, c.m - 1, c.d) : c \in {LocalFields(today)} })

\* the upper end: new Date(today.getTime() + 24 * 60 * 60 * 1000)
Tomorrow(today) == today + 24

\* the filename's date when the year, month and day pass the range test
FilenameDateOk(year, month, day, today) ==
    /\ year >= MinFilenameYear
    /\ year <= GetFullYear(today)
    /\ month >= 1 /\ month <= 12
    /\ day >= 1 /\ day <= 31

\* the year, month and day parseInt reads from the groups of a filename match
YmdOfYMD(f) == [y |-> StrToNat(f.g1), m |-> StrToNat(f.g2), d |-> StrToNat(f.g3)]

YmdOfMDY(f) == [y |-> StrToNat(f.g3), m |-> StrToNat(f.g1), d |-> StrToNat(f.g2)]

\* a variant of RecentDate that reports the generated date as certain
RecentDateHigh(today, daysAgo) ==
    [date |-> ToISODate(today - 24 * daysAgo), confidence |-> "high"]

\* the last branch of generateReasonableDate: receiptDate.setDate(
\* today.getDate() - daysAgo), then toISOString().split("T")[0]
RecentDate(today, daysAgo) ==
    [date |-> ToISODate(today - 24 * daysAgo), confidence |-> "low"]

\* generateReasonableDate(filename); daysAgo is Math.floor(Math.random() * 14)
generateReasonableDate(fname, today, daysAgo) ==
    Only({ IF f1.found /\ FilenameDateOk(a.y, a.m, a.d, today)
           THEN [date |-> FormatYMD(a.y, a.m, a.d), confidence |-> "medium"]
           ELSE IF f2.found /\ FilenameDateOk(b.y, b.m, b.d, today)
           THEN [date |-> FormatYMD(b.y, b.m, b.d), confidence |-> "medium"]
           ELSE RecentDate(today, daysAgo)
           : <<f1, a, f2, b>> \in
               { <<m1, YmdOfYMD(m1), m2, YmdOfMDY(m2)>>
                 : m1 \in {ReFileYMD(fname)}, m2 \in {ReFileMDY(fname)} } })

\* the Date validateAndFixDate holds before the window test: the native
\* parse, else the first of the two explicit formats that matches
ParsedDate(v, lenient) ==
    Only({ IF native # NaNDate THEN native
           ELSE IF v.t # "str" THEN NaNDate   \* dateString.match throws: caught
           ELSE Only({ IF f.found THEN DateOfMDY(f) ELSE NaNDate
                       : f \in {FirstFound(ReSlashMDY(v.s), ReDashMDY(v.s))} })
           : native \in {NewDateOf(v, lenient)} })

\* the window test of validateAndFixDate
InWindow(parsed, today) ==
    /\ parsed # NaNDate
    /\ ~(parsed > Tomorrow(today))
    /\ ~(parsed < OneYearAgo(today))

validateAndFixDate(v, fname, today, lenient, daysAgo) ==
    Only({ IF InWindow(parsed, today)
           THEN [date |-> ToISODate(parsed), confidence |-> "high"]
           ELSE generateReasonableDate(fname, today, daysAgo)
           : parsed \in {ParsedDate(v, lenient)} })

-----------------------------------------------------------------------------
(* JavaScript numbers that hold amounts: a finite number of cents, or      *)
(* Infinity, -Infinity, NaN                                                *)

Fin(c) == [k |-> "fin", c |-> c]

PosInf == [k |-> "inf", c |-> 0]

NegInf == [k |-> "ninf", c |-> 0]

NaN == [k |-> "nan", c |-> 0]

IsFinite(x) == x.k = "fin"

\* the number of consecutive decimal digits of s from position i on
RECURSIVE DigitRun(_, _)
DigitRun(s, i) ==
    IF i <= Len(s) /\ IsDigit(Char(s, i)) THEN 1 + DigitRun(s, i + 1) ELSE 0

StartsWithAt(s, i, p) ==
    i + Len(p) - 1 <= Len(s) /\ SubSeq(s, i, i + Len(p) - 1) = p

\* the cents of the decimal literal whose integer digits are ip and whose
\* fraction digits are fp (amounts carry at most two fraction digits)
CentsOf(ip, fp) == 100 * StrToNat(ip) + StrToNat(SubSeq(fp \o "00", 1, 2))

\* the number of fraction digits after a "." at position p, 0 without a "."
FractionRun(u, p) == IF StartsWithAt(u, p, ".") THEN DigitRun(u, p + 1) ELSE 0

\* the longest decimal literal of u that starts at b: il integer digits,
\* then "." and fl fraction digits; NaN when it holds no digit
DecimalLiteral(u, b) ==
    Only({ IF il = 0 /\ fl = 0 THEN [k |-> "nan", c |-> 0]
           ELSE [k |-> "fin",
                 c |-> CentsOf(SubSeq(u, b, b + il - 1),
                               SubSeq(u, b + il + 1, b + il + fl))]
           : <<il, fl>> \in { <<n, FractionRun(u, b + n)>> : n \in {DigitRun(u, b)} } })

\* parseFloat without the sign
UnsignedFloat(u, b) ==
    IF StartsWithAt(u, b, "Infinity") THEN PosInf ELSE DecimalLiteral(u, b)

\* -x
Negate(x) ==
    IF x.k = "inf" THEN NegInf
    ELSE IF x.k = "ninf" THEN PosInf
    ELSE IF x.k = "fin" THEN Fin(0 - x.c)
    ELSE x

\* parseFloat(string): leading white space, an optional sign, then Infinity
\* or the longest decimal literal; NaN when no digit is found
ParseFloat(str) ==
    Only({ IF StartsWithAt(u, 1, "-") THEN Only({ Negate(x) : x \in {UnsignedFloat(u, 2)} })
           ELSE IF StartsWithAt(u, 1, "+") THEN UnsignedFloat(u, 2)
           ELSE UnsignedFloat(u, 1)
           : u \in {TrimLeft(str)} })

\* String(number)
NumToString(x) ==
    IF x.k = "inf" THEN "Infinity"
    ELSE IF x.k = "ninf" THEN "-Infinity"
    ELSE IF x.k = "nan" THEN "NaN"
    ELSE LET a  == IF x.c < 0 THEN 0 - x.c ELSE x.c
             ip == NatToStr(a \div 100)
             fp == a % 100
             fs == IF fp = 0 THEN ""
                   ELSE IF fp % 10 = 0 THEN "." \o NatToStr(fp \div 10)
                   ELSE "." \o PadStart2(NatToStr(fp))
         IN  (IF x.c < 0 THEN "-" ELSE "") \o ip \o fs

\* String(value) of a reply field
ToStringValue(v) ==
    IF v.t = "str" THEN v.s
    ELSE IF v.t = "num" THEN NumToString(Fin(v.n))
    ELSE "undefined"

\* x || 0 for a number: NaN and 0 are falsy
OrZero(x) == IF x.k = "nan" \/ (x.k = "fin" /\ x.c = 0) THEN Fin(0) ELSE x

\* parseFloat(extractedData.amount) || 0
SanitizeAmount(v) ==
    Only({ OrZero(x) : x \in { ParseFloat(t) : t \in {ToStringValue(v)} } })

CurrencySymbols == <<"$", "€", "£", "¥", "₹">>

CurrencyCodes == <<"USD", "EUR", "GBP", "JPY", "INR">>

IsCurrencySymbol(c) == \E k \in 1..Len(CurrencySymbols) : CurrencySymbols[k] = c

\* the leftmost position from i on that holds a digit, 0 if there is none
RECURSIVE FirstDigit(_, _)
FirstDigit(s, i) ==
    IF i > Len(s) THEN 0
    ELSE IF IsDigit(Char(s, i)) THEN i ELSE FirstDigit(s, i + 1)

\* the leftmost position from i on that holds a currency symbol, 0 if none
RECURSIVE FirstSymbol(_, _)
FirstSymbol(s, i) ==
    IF i > Len(s) THEN 0
    ELSE IF IsCurrencySymbol(Char(s, i)) THEN i ELSE FirstSymbol(s, i + 1)

\* group 1 of text.match(/(\d+\.?\d*)/) for a match that starts at i0:
\* the digits, then "." if it follows, then the digits after it
NumericMatch(text, i0) ==
    Only({ SubSeq(text, i0, i0 + il - 1 + dl + fl)
           : <<il, dl, fl>> \in
               { <<n, IF StartsWithAt(text, i0 + n, ".") THEN 1 ELSE 0,
                   FractionRun(text, i0 + n)>> : n \in {DigitRun(text, i0)} } })

\* a variant of CurrencyOf that maps every symbol to USD
CurrencyAlwaysUSD(sym) == "USD"

\* symbolMap[symbol]
CurrencyOf(sym) ==
    CurrencyCodes[CHOOSE k \in 1..Len(CurrencySymbols) : CurrencySymbols[k] = sym]

\* normalizeCurrency(amount, currency) on text == String(amount)
normalizeCurrency(text, currency) ==
    Only({ [amount   |-> IF i0 = 0 THEN Fin(0)
                         ELSE Only({ ParseFloat(g) : g \in {NumericMatch(text, i0)} }),
            currency |-> IF s0 = 0 THEN currency ELSE CurrencyOf(Char(text, s0)),
            symbol   |-> IF s0 = 0 THEN "$" ELSE Char(text, s0)]
           : i0 \in {FirstDigit(text, 1)}, s0 \in {FirstSymbol(text, 1)} })

-----------------------------------------------------------------------------
(* normalizeMerchant                                                       *)

\* s.replace(re, "") for a pattern that ends in ".*$": everything from the
\* leftmost start at which the pattern matches is removed
CutAt(s, starts) ==
    Only({ IF S = {} THEN s
           ELSE SubSeq(s, 1, Min(S) - 1)
           : S \in {starts} })

\* /\*TRIP.*$/i
TripStarts(s) ==
    { i \in 1..Len(s) :
        /\ Char(s, i) = "*"
        /\ i + 4 <= Len(s)
        /\ ToLowerCase(SubSeq(s, i, i + 4)) = "*trip"
        /\ DotStarToEnd(s, i + 5) }

\* /\s+\*\s*.*$/i
AsteriskStarts(s) ==
    { i \in 1..Len(s) : IsSpace(Char(s, i)) /\ \E j \in (i + 1)..Len(s) :
        /\ Char(s, j) = "*"
        /\ AllSpace(s, i, j - 1)
        /\ \E k \in (j + 1)..(Len(s) + 1) :
              AllSpace(s, j + 1, k - 1) /\ DotStarToEnd(s, k) }

\* /\s+#\d+.*$/i
StoreNumberStarts(s) ==
    { i \in 1..Len(s) : IsSpace(Char(s, i)) /\ \E j \in (i + 1)..Len(s) :
        /\ Char(s, j) = "#"
        /\ AllSpace(s, i, j - 1)
        /\ AllDigits(s, j + 1, 1)
        /\ DotStarToEnd(s, j + 2) }

\* /\s+\d{4}.*$/i
FourDigitStarts(s) ==
    { i \in 1..Len(s) : IsSpace(Char(s, i)) /\ \E j \in (i + 1)..Len(s) :
        /\ AllDigits(s, j, 4)
        /\ AllSpace(s, i, j - 1)
        /\ DotStarToEnd(s, j + 4) }

\* /\s+-\s+.*$/i
LocationStarts(s) ==
    { i \in 1..Len(s) : IsSpace(Char(s, i)) /\ \E j \in (i + 1)..Len(s) :
        /\ Char(s, j) = "-"
        /\ AllSpace(s, i, j - 1)
        /\ \E k \in (j + 2)..(Len(s) + 1) :
              AllSpace(s, j + 1, k - 1) /\ DotStarToEnd(s, k) }

\* the five replace calls, in the order of the chain
ReplaceTrip(str) == Only({ CutAt(s, TripStarts(s)) : s \in {str} })

ReplaceAsterisk(str) == Only({ CutAt(s, AsteriskStarts(s)) : s \in {str} })

ReplaceStoreNumber(str) == Only({ CutAt(s, StoreNumberStarts(s)) : s \in {str} })

ReplaceFourDigit(str) == Only({ CutAt(s, FourDigitStarts(s)) : s \in {str} })

ReplaceLocation(str) == Only({ CutAt(s, LocationStarts(s)) : s \in {str} })

\* s.replace(/\s+/g, " "); i is the position reached
RECURSIVE CollapseFrom(_, _)
CollapseFrom(s, i) ==
    IF i > Len(s) THEN ""
    ELSE IF IsSpace(Char(s, i))
    THEN " " \o CollapseFrom(s, FirstNonSpace(s, i))
    ELSE Char(s, i) \o CollapseFrom(s, i + 1)

CollapseSpaces(s) == CollapseFrom(s, 1)

\* s.replace(/\b\w/g, (l) => l.toUpperCase()); i is the position reached
RECURSIVE TitleFrom(_, _)
TitleFrom(s, i) ==
    IF i > Len(s) THEN ""
    ELSE (IF IsWordChar(Char(s, i)) /\ (i = 1 \/ ~IsWordChar(Char(s, i - 1)))
          THEN ToUpperChar(Char(s, i))
          ELSE Char(s, i)) \o TitleFrom(s, i + 1)

TitleCase(s) == TitleFrom(s, 1)

\* the replace chain and .trim()
RemoveNoise(s) ==
    Only({ Trim(r) : r \in { ReplaceLocation(ReplaceFourDigit(ReplaceStoreNumber(
                                 ReplaceAsterisk(ReplaceTrip(s))))) } })

normalizeMerchant(merchantName) ==
    IF merchantName = "" THEN "Unknown Merchant"
    ELSE Only({ IF normalized = "" THEN "Unknown Merchant" ELSE normalized
                : normalized \in
                    { TitleCase(c) : c \in
                        { CollapseSpaces(t) : t \in {RemoveNoise(merchantName)} } } })

-----------------------------------------------------------------------------
(* Pattern fallback: enhancedPatternExtraction                             *)

\* the merchant keyword table, in the order Object.entries yields it
merchantPatterns == <<
    [pattern |-> "starbucks", name |-> "Starbucks", category |-> "Meals", min |-> 4, max |-> 12],
    [pattern |-> "coffee", name |-> "Coffee Shop", category |-> "Meals", min |-> 3, max |-> 8],
    [pattern |-> "dunkin", name |-> "Dunkin", category |-> "Meals", min |-> 3, max |-> 10],
    [pattern |-> "mcdonald", name |-> "McDonald's", category |-> "Meals", min |-> 5, max |-> 15],
    [pattern |-> "subway", name |-> "Subway", category |-> "Meals", min |-> 8, max |-> 15],
    [pattern |-> "chipotle", name |-> "Chipotle", category |-> "Meals", min |-> 10, max |-> 18],
    [pattern |-> "panera", name |-> "Panera Bread", category |-> "Meals", min |-> 8, max |-> 20],
    [pattern |-> "pizza", name |-> "Pizza Place", category |-> "Meals", min |-> 12, max |-> 25],
    [pattern |-> "restaurant", name |-> "Restaurant", category |-> "Meals", min |-> 15, max |-> 50],
    [pattern |-> "diner", name |-> "Diner", category |-> "Meals", min |-> 8, max |-> 25],
    [pattern |-> "uber", name |-> "Uber", category |-> "Travel", min |-> 8, max |-> 35],
    [pattern |-> "lyft", name |-> "Lyft", category |-> "Travel", min |-> 8, max |-> 35],
    [pattern |-> "taxi", name |-> "Taxi", category |-> "Travel", min |-> 10, max |-> 40],
    [pattern |-> "shell", name |-> "Shell", category |-> "Travel", min |-> 25, max |-> 80],
    [pattern |-> "exxon", name |-> "ExxonMobil", category |-> "Travel", min |-> 25, max |-> 80],
    [pattern |-> "chevron", name |-> "Chevron", category |-> "Travel", min |-> 25, max |-> 80],
    [pattern |-> "bp", name |-> "BP", category |-> "Travel", min |-> 25, max |-> 80],
    [pattern |-> "gas", name |-> "Gas Station", category |-> "Travel", min |-> 30, max |-> 70],
    [pattern |-> "hotel", name |-> "Hotel", category |-> "Travel", min |-> 80, max |-> 300],
    [pattern |-> "motel", name |-> "Motel", category |-> "Travel", min |-> 50, max |-> 150],
    [pattern |-> "marriott", name |-> "Marriott", category |-> "Travel", min |-> 100, max |-> 400],
    [pattern |-> "hilton", name |-> "Hilton", category |-> "Travel", min |-> 100, max |-> 400],
    [pattern |-> "delta", name |-> "Delta Air Lines", category |-> "Travel", min |-> 200, max |-> 800],
    [pattern |-> "american", name |-> "American Airlines", category |-> "Travel", min |-> 200, max |-> 800],
    [pattern |-> "southwest", name |-> "Southwest Airlines", category |-> "Travel", min |-> 150, max |-> 600],
    [pattern |-> "united", name |-> "United Airlines", category |-> "Travel", min |-> 200, max |-> 800],
    [pattern |-> "parking", name |-> "Parking", category |-> "Travel", min |-> 5, max |-> 30],
    [pattern |-> "office", name |-> "Office Depot", category |-> "Supplies", min |-> 15, max |-> 100],
    [pattern |-> "staples", name |-> "Staples", category |-> "Supplies", min |-> 15, max |-> 100],
    [pattern |-> "depot", name |-> "Office Depot", category |-> "Supplies", min |-> 15, max |-> 100],
    [pattern |-> "amazon", name |-> "Amazon", category |-> "Supplies", min |-> 10, max |-> 200],
    [pattern |-> "best buy", name |-> "Best Buy", category |-> "Supplies", min |-> 20, max |-> 500],
    [pattern |-> "costco", name |-> "Costco", category |-> "Supplies", min |-> 50, max |-> 300],
    [pattern |-> "walmart", name |-> "Walmart", category |-> "Supplies", min |-> 10, max |-> 150],
    [pattern |-> "target", name |-> "Target", category |-> "Supplies", min |-> 15, max |-> 200],
    [pattern |-> "fedex", name |-> "FedEx Office", category |-> "Supplies", min |-> 5, max |-> 50],
    [pattern |-> "ups", name |-> "UPS Store", category |-> "Supplies", min |-> 5, max |-> 50],
    [pattern |-> "print", name |-> "Print Shop", category |-> "Supplies", min |-> 5, max |-> 40]
>>

\* a variant of MatchedIndex that takes the last entry that occurs
MatchedIndexLast(lowerFilename) ==
    Only({ IF hits = {} THEN 0 ELSE CHOOSE k \in hits : \A j \in hits : j <= k
           : hits \in {{ k \in 1..Len(merchantPatterns) :
                            Includes(lowerFilename, merchantPatterns[k].pattern) }} })

\* Object.entries(merchantPatterns).find(([pattern]) =>
\*     lowerFilename.includes(pattern)): index of the first entry, 0 for none
MatchedIndex(lowerFilename) ==
    Only({ IF hits = {} THEN 0 ELSE Min(hits)
           : hits \in {{ k \in 1..Len(merchantPatterns) :
                            Includes(lowerFilename, merchantPatterns[k].pattern) }} })

DefaultMin == 5

DefaultMax == 50

\* Math.round((Math.random() * (max - min) + min + Math.random()) * 100) / 100
\* in cents, for two draws of Math.random() given in hundredths (r1/100, r2/100)
SynthAmount(min, max, r1, r2) == Fin(r1 * (max - min) + 100 * min + r2)

enhancedPatternExtraction(fname, today, daysAgo, r1, r2) ==
    Only({ [merchant_name |-> IF k = 0 THEN "Unknown Merchant"
                              ELSE merchantPatterns[k].name,
            amount        |-> IF k = 0 THEN SynthAmount(DefaultMin, DefaultMax, r1, r2)
                              ELSE SynthAmount(merchantPatterns[k].min,
                                               merchantPatterns[k].max, r1, r2),
            category      |-> IF k = 0 THEN "Other" ELSE merchantPatterns[k].category,
            receipt_date  |-> dateResult.date,
            confidence    |-> dateResult.confidence,
            date_source   |-> "estimated",
            has_notes     |-> FALSE,
            extraction_notes |-> ""]
           : k \in { MatchedIndex(lowerFilename)
                     : lowerFilename \in {ToLowerCase(fname)} },
             dateResult \in {generateReasonableDate(fname, today, daysAgo)} })

-----------------------------------------------------------------------------
(* Vision path of aiOCRExtraction: the reply and its validation            *)

\* a value that is falsy on the left of ||
Falsy(v) ==
    \/ v.t = "undef"
    \/ v.t = "str" /\ v.s = ""
    \/ v.t = "num" /\ v.n = 0

Categories == {"Meals", "Travel", "Supplies", "Other"}

ConfidenceLevels == {"high", "medium", "low"}

\* a variant of CoerceCategory that lets any string through
KeepCategory(v) == IF v.t = "str" THEN v.s ELSE "Other"

\* ["Meals","Travel","Supplies","Other"].includes(c) ? c : "Other"
CoerceCategory(v) ==
    IF v.t = "str" /\ v.s \in Categories THEN v.s ELSE "Other"

\* ["high","medium","low"].includes(c) ? c : "medium"
CoerceConfidence(v) ==
    IF v.t = "str" /\ v.s \in ConfidenceLevels THEN v.s ELSE "medium"

\* String(extractedData.merchant_name || "Unknown Merchant").trim()
CoerceMerchant(v) ==
    Only({ Trim(t)
           : t \in {IF Falsy(v) THEN "Unknown Merchant" ELSE ToStringValue(v)} })

\* The reply text: a JSON object of the given fields (or no object at all)
\* between a prefix and a suffix. cleanContent.match(/\{[\s\S]*\}/) spans
\* from the first "{" to the last "}" of the whole text, and JSON.parse of
\* that span yields the object only when the span is the object itself:
\* when no "{" comes before the object and no "}" after it.
ParseReply(content) ==
    IF /\ content.hasObject
       /\ ~Includes(content.pre, "{")
       /\ ~Includes(content.post, "}")
    THEN [ok |-> TRUE, fields |-> content.fields]
    ELSE [ok |-> FALSE, fields |-> content.fields]

\* validatedData of aiOCRExtraction
VisionRecord(f, fname, today, lenient, daysAgo) ==
    [merchant_name |-> CoerceMerchant(f.merchant_name),
     amount        |-> SanitizeAmount(f.amount),
     category      |-> CoerceCategory(f.category),
     receipt_date  |-> validateAndFixDate(f.receipt_date, fname, today,
                                          lenient, daysAgo).date,
     confidence    |-> CoerceConfidence(f.confidence),
     date_source   |-> "ai_vision",
     has_notes     |-> TRUE,
     extraction_notes |-> IF Falsy(f.extraction_notes)
                          THEN "Extracted using AI vision"
                          ELSE ToStringValue(f.extraction_notes)]

\* a variant of the catch clause that rethrows an abort
CatchesExceptAbort(why) == why # "model_abort"

\* the catch clause of aiOCRExtraction: which failures of the try block it
\* catches (catch (error) has no filter)
Catches(why) == TRUE

-----------------------------------------------------------------------------
(* parseDateRobust and the route's post-processing                         *)

\* the five formats of parseDateRobust, in order
RobustFormat(k, s) ==
    IF k = 1 THEN RegexDate(s, {"-"}, {4}, {1, 2}, {1, 2})        \* YYYY-MM-DD
    ELSE IF k = 2 THEN RegexDate(s, {"/"}, {1, 2}, {1, 2}, {4})   \* MM/DD/YYYY
    ELSE IF k = 3 THEN RegexDate(s, {"-"}, {1, 2}, {1, 2}, {4})   \* MM-DD-YYYY
    ELSE IF k = 4 THEN RegexDate(s, {"/"}, {1, 2}, {1, 2}, {2})   \* MM/DD/YY
    ELSE RegexDate(s, {"-"}, {1, 2}, {1, 2}, {2})                 \* MM-DD-YY

RobustFormatCount == 5

PivotYear == 50

\* the first format from k on that matches, with its match; k = 0 when none
\* does
RECURSIVE FirstRobustMatch(_, _)
FirstRobustMatch(k, s) ==
    IF k > RobustFormatCount THEN [k |-> 0, f |-> NoMatch]
    ELSE Only({ IF f.found THEN [k |-> k, f |-> f] ELSE FirstRobustMatch(k + 1, s)
                : f \in {RobustFormat(k, s)} })

\* year, month and day of a match of format k
RobustYMD(k, f) ==
    IF k = 1 THEN [year |-> StrToNat(f.g1), month |-> StrToNat(f.g2),
                   day |-> StrToNat(f.g3)]
    ELSE IF k \in {2, 3}
    THEN [year |-> StrToNat(f.g3), month |-> StrToNat(f.g1), day |-> StrToNat(f.g2)]
    ELSE [year |-> IF StrToNat(f.g3) < PivotYear THEN 2000 + StrToNat(f.g3)
                   ELSE 1900 + StrToNat(f.g3),
          month |-> StrToNat(f.g1), day |-> StrToNat(f.g2)]

\* the result, or "" for null. new Date(y, m - 1, d) of three numbers is
\* never an Invalid Date, so the first format that matches decides.
parseDateRobust(dateString) ==
    IF dateString = "" THEN ""
    ELSE Only({ IF m.k = 0 THEN ""
                ELSE Only({ ToISODate(NewDateLocal(d.year, d.month - 1, d.day))
                            : d \in {RobustYMD(m.k, m.f)} })
                : m \in {FirstRobustMatch(1, dateString)} })

\* parseDateRobust(d) || d
NormalizedDate(d) ==
    Only({ IF parsed = "" THEN d ELSE parsed : parsed \in {parseDateRobust(d)} })

ScoreHigh == 90

ScoreMedium == 70

ScoreLow == 50

ReviewThreshold == 72

\* a variant of ConfidenceScore that scores medium at 0.75
ConfidenceScoreRaised(c) ==
    IF c = "high" THEN 90 ELSE IF c = "medium" THEN 75 ELSE 50

\* confidence === "high" ? 0.9 : confidence === "medium" ? 0.7 : 0.5,
\* in hundredths
ConfidenceScore(c) ==
    IF c = "high" THEN ScoreHigh ELSE IF c = "medium" THEN ScoreMedium ELSE ScoreLow

\* confidence < 0.72
NeedsReview(score) == score < ReviewThreshold

\* processedData of the route
ProcessedData(e, isDuplicate) ==
    Only({ [kind          |-> "success",
            merchant_name |-> normalizeMerchant(e.merchant_name),
            amount        |-> currencyData.amount,
            currency      |-> currencyData.currency,
            receipt_date  |-> NormalizedDate(e.receipt_date),
            category      |-> e.category,
            confidence    |-> ConfidenceScore(e.confidence),
            needs_review  |-> NeedsReview(ConfidenceScore(e.confidence)),
            is_duplicate  |-> isDuplicate,
            extraction_notes |-> IF e.has_notes THEN e.extraction_notes
                                 ELSE "Processed with enhanced normalization"]
           : currencyData \in { normalizeCurrency(text, "USD")
                                : text \in {NumToString(e.amount)} } })

-----------------------------------------------------------------------------
(* checkForDuplicate and the record store                                  *)

NinetyDays == 90

\* session.id of the request
SessionUser == "user-1"

\* a variant of Duplicates without the createdAt filter
DuplicatesOfAnyAge(receipts, userId, merchant, amount, receiptDate, ninetyDaysAgo) ==
    { r \in receipts : /\ r.userId = userId
                       /\ r.merchantName = merchant
                       /\ r.amount = amount
                       /\ r.receiptDate = receiptDate }

\* the receipts that satisfy the where clause of prisma.receipt.findFirst
Duplicates(receipts, userId, merchant, amount, receiptDate, ninetyDaysAgo) ==
    { r \in receipts : /\ r.userId = userId
                       /\ r.merchantName = merchant
                       /\ r.amount = amount
                       /\ r.receiptDate = receiptDate
                       /\ r.createdAt > ninetyDaysAgo }

\* checkForDuplicate: !!duplicate, and false from the catch clause when the
\* lookup rejects. An Invalid Date in the where clause makes the lookup
\* reject as well.
checkForDuplicate(receipts, lookupFails, userId, merchant, amount, date, today, lenient) ==
    Only({ IF lookupFails \/ receiptDate = NaNDate THEN FALSE
           ELSE Duplicates(receipts, userId, merchant, amount, receiptDate,
                           today - NinetyDays * 24) # {}
           : receiptDate \in {NativeParse(date, lenient)} })

\* a variant of StoreAfterLookup that records the receipt of another user
StoreAfterInsert(receipts) ==
    receipts \cup {[userId |-> "user-3", merchantName |-> "", amount |-> Fin(0),
                    receiptDate |-> 0, createdAt |-> 0]}

\* findFirst reads the store and leaves it as it was
StoreAfterLookup(receipts) == receipts

\* KeySecurityManager.getInstance() under withKeyProtection: the static
\* instance is created by the first call and kept by the later ones
getInstance(instance) == TRUE

\* a variant of RouteResponse that refuses a submission found to be a duplicate
RouteResponseRefusing(data, isDuplicate) ==
    IF isDuplicate THEN [kind |-> "conflict"]
    ELSE [data EXCEPT !.is_duplicate = isDuplicate]

\* NextResponse.json({ success: true, extracted_data: processedData }) with
\* is_duplicate: isDuplicate
RouteResponse(data, isDuplicate) == [data EXCEPT !.is_duplicate = isDuplicate]

-----------------------------------------------------------------------------
(* Inputs                                                                  *)

\* evaluation instants (hours since the epoch) and server time zones
Clocks == {
    [now |-> DaysFromCivil(2026, 11, 5) * 24 + 12, tz |-> 0],
    [now |-> DaysFromCivil(2026, 11, 5) * 24 + 12, tz |-> 0 - 5],
    [now |-> DaysFromCivil(2026, 11, 5) * 24 + 12, tz |-> 5],
    [now |-> DaysFromCivil(2024, 2, 29) * 24 + 23, tz |-> 0],
    [now |-> DaysFromCivil(2025, 12, 31) * 24 + 22, tz |-> 5] }

Filenames == {
    "",
    "receipt.jpg",
    "starbucks_receipt_2024-03-15.jpg",
    "starbucks_receipt_2026-11-01.jpg",
    "uber_2024-02-31.png",
    "Coffee_Starbucks_11-04-2026.jpg",
    "IMG_2019-05-01.jpg" }

ReplyMerchants == {Str("UBER"), Undef}

ReplyAmounts ==
    {Num(2898), Str("12.50"), Num(0 - 500), Str("Infinity"), Str("abc"), Undef}

ReplyCategories == {Str("Travel"), Str("Gadgets")}

ReplyDates ==
    {Str("2026-11-05"), Str("2025-11-05"), Str("2099-01-01"),
     Str("02/28/2024"), Str("2024-02-30"), Undef}

ReplyConfidences == {Str("high"), Str("low"), Str("certain")}

ReplyFields ==
    [merchant_name : ReplyMerchants, amount : ReplyAmounts,
     category : ReplyCategories, receipt_date : ReplyDates,
     confidence : ReplyConfidences, extraction_notes : {Undef}]

\* the fields of the replies that come wrapped in text
WrappedFields ==
    { f \in ReplyFields : f.merchant_name = Str("UBER") /\ f.amount = Str("12.50") }

NoFields ==
    [merchant_name |-> Undef, amount |-> Undef, category |-> Undef,
     receipt_date |-> Undef, confidence |-> Undef, extraction_notes |-> Undef]

\* the fields of the replies whose wrapping text holds braces
BracedFields ==
    { f \in WrappedFields : /\ f.category = Str("Travel")
                            /\ f.receipt_date = Str("2026-11-05")
                            /\ f.confidence = Str("high") }

\* replies: a bare JSON object, an object after a sentence, an object with
\* braces or a second object in the text around it, and a refusal that
\* holds no object
Replies ==
    [pre : {"{draft} ", "total} "}, hasObject : {TRUE}, fields : BracedFields,
     post : {""}]
    \cup
    [pre : {""}, hasObject : {TRUE}, fields : BracedFields,
     post : {" {see the note}", " {\"merchant_name\":\"Lyft\"}", " {"}]
    \cup
    [pre : {""}, hasObject : {TRUE}, fields : ReplyFields, post : {""}]
    \cup
    [pre : {"Here is the data: "}, hasObject : {TRUE}, fields : WrappedFields,
     post : {""}]
    \cup
    [pre : {"I cannot read this image."}, hasObject : {FALSE},
     fields : {NoFields}, post : {""}]

NoReply == [pre |-> "", hasObject |-> FALSE, fields |-> NoFields, post |-> "<none>"]

\* outcomes of Math.random(), in hundredths
RandDraws == {0, 99}

\* outcomes of Math.floor(Math.random() * 14) that are explored
DaysAgoDraws == {0, 7, RandomDayRange - 1}

NoRecord == [date_source |-> "none"]

\* merchant names handed to normalizeMerchant: concatenations of at most
\* MaxFragments of these fragments
MerchantFragments == {"uber", "Cafe", " ", "\t", "\n", "*TRIP", "#12", "1234", "-"}

MaxFragments == 3

RECURSIVE Concatenations(_)
Concatenations(n) ==
    IF n = 0 THEN {""}
    ELSE { p \o f : p \in Concatenations(n - 1), f \in MerchantFragments \cup {""} }

MerchantInputs == Concatenations(MaxFragments)

NoResponse == [kind |-> "none"]

\* the store at the time of the request: receipts of the session's user and
\* of another user, created inside and outside the trailing ninety days
ReceiptsAt(today) == {
    [userId |-> SessionUser, merchantName |-> "Starbucks", amount |-> Fin(400),
     receiptDate |-> DaysFromCivil(2024, 3, 15) * 24, createdAt |-> today - 10 * 24],
    [userId |-> SessionUser, merchantName |-> "Starbucks", amount |-> Fin(499),
     receiptDate |-> DaysFromCivil(2024, 3, 15) * 24, createdAt |-> today - 100 * 24],
    [userId |-> "user-2", merchantName |-> "Starbucks", amount |-> Fin(1291),
     receiptDate |-> DaysFromCivil(2024, 3, 15) * 24, createdAt |-> today - 10 * 24],
    [userId |-> SessionUser, merchantName |-> "UBER", amount |-> Fin(1250),
     receiptDate |-> DaysFromCivil(2026, 11, 5) * 24, createdAt |-> today - 24],
    [userId |-> SessionUser, merchantName |-> "UBER", amount |-> Fin(2898),
     receiptDate |-> DaysFromCivil(2026, 11, 5) * 24,
     createdAt |-> today - NinetyDays * 24] }

-----------------------------------------------------------------------------
(* The synchronous OCR route: POST /api/ocr                                *)

MerchIdle == mStage = 0 /\ mIn = "" /\ mOut = "" /\ mAgain = ""

NoArg == [of |-> "none"]

NoResult == [of |-> "none"]

FunIdle == fn = "none" /\ arg = NoArg /\ result = NoResult

NoRequest == [url |-> ""]

QueueIdle == cache = {} /\ queue = {} /\ req = NoRequest

CompanyIdle == settings = {} /\ procs = <<>> /\ nextId = 0

SideIdle == QueueIdle /\ CompanyIdle

Init ==
    /\ \E c \in Clocks : now = c.now /\ tz = c.tz
    /\ filename \in Filenames
    /\ pc = "session"
    /\ reply = NoReply
    /\ lenientEng = FALSE
    /\ path = "none"
    /\ extracted = NoRecord
    /\ failure = "none"
    /\ thrown = FALSE
    /\ modelCalls = 0
    /\ response = NoResponse
    /\ store = ReceiptsAt(now)
    /\ lookup = "none"
    /\ keyManager = FALSE
    /\ MerchIdle
    /\ FunIdle
    /\ SideIdle

\* a variant of Respond that answers and lets the handler run on into the
\* extraction, as a refusal without its return would
RespondAndGoOn(kind) ==
    /\ response' = [kind |-> kind]
    /\ pc' = "fetch"
    /\ UNCHANGED <<now, tz, filename, reply, lenientEng, path, extracted,
                   failure, thrown, modelCalls, store, lookup, keyManager, merchVars, funVars, sideVars>>

\* a return of the route before the extraction: the response is the
\* handler's last step
Respond(kind) ==
    /\ response' = [kind |-> kind]
    /\ pc' = "done"
    /\ UNCHANGED <<now, tz, filename, reply, lenientEng, path, extracted,
                   failure, thrown, modelCalls, store, lookup, keyManager, merchVars, funVars, sideVars>>

Advance(to) ==
    /\ pc' = to
    /\ UNCHANGED <<now, tz, filename, reply, lenientEng, path, extracted,
                   failure, thrown, modelCalls, response, store, lookup, keyManager, merchVars, funVars, sideVars>>

\* const session = await getSession(); if (!session) return unauthorized().
\* A rejection of getSession reaches the handler's catch (handleDatabaseError).
GetSession ==
    /\ pc = "session"
    /\ \/ Respond("unauthorized")
       \/ Respond("server_error")
       \/ Advance("body")

\* const body = await request.json(): a body that is not JSON throws, and
\* the handler's catch answers with handleDatabaseError
ReadBody ==
    /\ pc = "body"
    /\ \/ Respond("server_error")
       \/ Advance("ratelimit")

\* limitByUser(...): if (!rateLimit.ok) return 429; a rejection of
\* limitByUser reaches the handler's catch
RateLimit ==
    /\ pc = "ratelimit"
    /\ \/ Respond("rate_limited")
       \/ Respond("server_error")
       \/ Advance("validate")

\* ocrRequestSchema.safeParse(body): if (!validation.success) return
\* handleValidationError(validation.error)
Validate ==
    /\ pc = "validate"
    /\ \/ Respond("validation_error")
       \/ Advance("sanitize")

\* sanitizeUrl(validation.data.file_url), sanitizeText(filename || ""):
\* if (!sanitizedFileUrl) return badRequest(...)
Sanitize ==
    /\ pc = "sanitize"
    /\ \/ Respond("bad_request")
       \/ Advance("fetch")

\* ocrRequestSchema.safeParse(body), then sanitizeUrl(file_url)
ValidateAndSanitize ==
    \/ Validate
    \/ Sanitize

\* The engine's choices that can matter for a reply date: the native parser
\* decides by itself only on texts ECMAScript does not fix.
EngineChoices(v) ==
    IF v.t = "str" /\ NativeParse(v.s, TRUE) # NativeParse(v.s, FALSE)
    THEN BOOLEAN ELSE {FALSE}

\* The draws of Math.floor(Math.random() * 14) that can matter: the draw is
\* made only where generateReasonableDate reaches its last branch.
DayDraws(v, fname, today, lenient) ==
    IF validateAndFixDate(v, fname, today, lenient, 0).confidence = "low"
    THEN DaysAgoDraws ELSE {0}

FallBackDayDraws(fname, today) ==
    IF generateReasonableDate(fname, today, 0).confidence = "low"
    THEN DaysAgoDraws ELSE {0}

\* a variant of AfterCatch that sends a rejected model call back to the call
RetryAfterCatch(why) ==
    IF why \in {"model_error", "model_abort"} THEN "model" ELSE "normalize"

\* where the request continues after the catch clause of aiOCRExtraction:
\* the clause returns a record, and the route goes on to normalise it
AfterCatch(why) == "normalize"

\* The catch clause of aiOCRExtraction, entered with the given failure:
\* return enhancedPatternExtraction(filename)
FallBack(why) ==
    \E daysAgo \in FallBackDayDraws(filename, now) :
    \E r1 \in RandDraws, r2 \in RandDraws :
        /\ failure' = why
        /\ IF Catches(why)
           THEN /\ extracted' = enhancedPatternExtraction(filename, now, daysAgo, r1, r2)
                /\ path' = "fallback"
                /\ thrown' = FALSE
                /\ pc' = AfterCatch(why)
                /\ response' = response
           ELSE /\ extracted' = NoRecord
                /\ path' = "none"
                /\ thrown' = TRUE
                /\ pc' = "done"
                /\ response' = [kind |-> "server_error"]

\* imageUrlToBase64(fileUrl): the fetch, the status test, the content type
FetchImage ==
    /\ pc = "fetch"
    /\ \/ /\ \E why \in {"fetch_rejected", "fetch_status", "fetch_type"} :
                FallBack(why)
          /\ UNCHANGED <<now, tz, filename, reply, lenientEng, modelCalls,
                         store, lookup, keyManager, merchVars, funVars, sideVars>>
       \/ Advance("model")

\* openai.chat.completions.create(...) under withKeyProtection, and what
\* follows it in the try block
CallModel ==
    /\ pc = "model"
    /\ modelCalls' = modelCalls + 1
    /\ keyManager' = getInstance(keyManager)
    /\ UNCHANGED <<now, tz, filename, store, lookup, merchVars, funVars, sideVars>>
    /\ \/ \* the call rejects (an API error, or an abort by a deadline), the
          \* response has no choices[0].message, or its content is empty
          /\ \E why \in {"model_error", "model_abort", "no_choices", "empty_content"} :
                FallBack(why)
          /\ UNCHANGED <<reply, lenientEng>>
       \/ \* content that does not parse: "Invalid JSON response from vision API"
          /\ \E r \in Replies :
                /\ ~ParseReply(r).ok
                /\ reply' = r
          /\ FallBack("parse")
          /\ UNCHANGED lenientEng
       \/ \* content that parses: return validatedData
          \E r \in Replies : \E parsed \in {ParseReply(r)} :
                /\ parsed.ok
                /\ \E lenient \in EngineChoices(parsed.fields.receipt_date) :
                   \E daysAgo \in DayDraws(parsed.fields.receipt_date, filename,
                                            now, lenient) :
                   \E f \in {parsed.fields} :
                      /\ lenientEng' = lenient
                      /\ extracted' = VisionRecord(f, filename, now, lenient, daysAgo)
                /\ reply' = r
                /\ path' = "vision"
                /\ failure' = "none"
                /\ thrown' = FALSE
                /\ pc' = "normalize"
                /\ response' = response

\* normalizeMerchant, normalizeCurrency, parseDateRobust, then
\* await checkForDuplicate(userId, normalizedMerchant, currencyData.amount,
\* normalizedDate) and the response. The lookup of the store answers or
\* rejects; data holds the three normalised values the lookup is given.
CheckDuplicateAndRespond ==
    /\ pc = "normalize"
    /\ \E lookupFails \in BOOLEAN :
       \E data \in {ProcessedData(extracted, FALSE)} :
       \E isDuplicate \in {checkForDuplicate(store, lookupFails, SessionUser,
                                              data.merchant_name, data.amount,
                                              data.receipt_date, now, lenientEng)} :
          /\ response' = RouteResponse(data, isDuplicate)
          /\ lookup' = IF lookupFails THEN "failed"
                       ELSE IF isDuplicate THEN "found" ELSE "absent"
    /\ store' = StoreAfterLookup(store)
    /\ pc' = "done"
    /\ UNCHANGED <<now, tz, filename, reply, lenientEng, path, extracted,
                   failure, thrown, modelCalls, keyManager, merchVars, funVars, sideVars>>

Next ==
    \/ GetSession
    \/ ReadBody
    \/ RateLimit
    \/ ValidateAndSanitize
    \/ FetchImage
    \/ CallModel
    \/ CheckDuplicateAndRespond

Spec == Init /\ [][Next]_vars

-----------------------------------------------------------------------------
(* normalizeMerchant on its own: applied once, then applied to its result  *)

PipelineIdle ==
    /\ now = 0 /\ tz = 0 /\ filename = "" /\ pc = "idle"
    /\ reply = NoReply /\ lenientEng = FALSE /\ path = "none"
    /\ extracted = NoRecord /\ failure = "none" /\ thrown = FALSE
    /\ modelCalls = 0 /\ response = NoResponse
    /\ store = {} /\ lookup = "none" /\ keyManager = FALSE

InitMerchant ==
    /\ PipelineIdle
    /\ mStage = 0
    /\ mIn \in MerchantInputs
    /\ mOut = ""
    /\ mAgain = ""
    /\ FunIdle
    /\ SideIdle

NormalizeOnce ==
    /\ pc = "idle" /\ mStage = 0
    /\ mOut' = normalizeMerchant(mIn)
    /\ mStage' = 1
    /\ UNCHANGED <<pipeVars, mIn, mAgain, funVars, sideVars>>

NormalizeAgain ==
    /\ pc = "idle" /\ mStage = 1
    /\ mAgain' = normalizeMerchant(mOut)
    /\ mStage' = 2
    /\ UNCHANGED <<pipeVars, mIn, mOut, funVars, sideVars>>

NextMerchant == NormalizeOnce \/ NormalizeAgain

SpecMerchant == InitMerchant /\ [][NextMerchant]_vars

-----------------------------------------------------------------------------
(* The date and currency functions on their own: each applied once to      *)
(* arguments of its own, at a given instant and server time zone           *)

\* dateString values handed to validateAndFixDate
DateValues ==
    {Str("2026-11-05"), Str("11/05/2026"), Str("11-05-2026"), Str("2025-11-05"),
     Str("11/04/2025"), Str("11/06/2026"), Str("2026-11-07"), Str("12/31/2025"),
     Str("02/29/2024"), Str("2024-02-30"), Str("2099-01-01"),
     Str("paid on 11/05/2026"), Str("yesterday"), Str(""), Undef}

InitFunctions ==
    /\ \E c \in Clocks : now = c.now /\ tz = c.tz
    /\ filename = "" /\ pc = "idle"
    /\ reply = NoReply /\ lenientEng = FALSE /\ path = "none"
    /\ extracted = NoRecord /\ failure = "none" /\ thrown = FALSE
    /\ modelCalls = 0 /\ response = NoResponse
    /\ store = {} /\ lookup = "none" /\ keyManager = FALSE
    /\ MerchIdle
    /\ FunIdle
    /\ SideIdle

\* validateAndFixDate(dateString, filename)
ApplyValidateAndFixDate ==
    /\ pc = "idle" /\ fn = "none"
    /\ \E v \in DateValues, fname \in Filenames :
       \E lenient \in EngineChoices(v) :
       \E daysAgo \in DayDraws(v, fname, now, lenient) :
          /\ arg' = [dateString |-> v, filename |-> fname, lenient |-> lenient,
                     daysAgo |-> daysAgo]
          /\ result' = validateAndFixDate(v, fname, now, lenient, daysAgo)
    /\ fn' = "validateAndFixDate"
    /\ UNCHANGED <<pipeVars, merchVars, sideVars>>

\* date texts handed to parseDateRobust: the five forms, with one and two
\* digit months and days and two digit years on both sides of the pivot,
\* and texts of no form
RobustTexts ==
    {"2024-03-15", "2024-3-5", "2026-01-01", "03/15/2024", "3/5/2024",
     "03-15-2024", "12-31-2025", "03/15/24", "1/2/49", "01/02/50", "12/31/99",
     "03-15-24", "12-31-50", "15.03.2024", "2024/03/15", "March 15", "yesterday",
     "20240315", ""}

\* parseDateRobust(dateString), and the route's
\* parseDateRobust(dateString) || dateString
ApplyParseDateRobust ==
    /\ pc = "idle" /\ fn = "none"
    /\ \E s \in RobustTexts :
          /\ arg' = [dateString |-> s]
          /\ result' = [date |-> parseDateRobust(s), normalizedDate |-> NormalizedDate(s)]
    /\ fn' = "parseDateRobust"
    /\ UNCHANGED <<pipeVars, merchVars, sideVars>>

\* amounts handed to normalizeCurrency, as String(amount) writes them
AmountTexts ==
    {"28.98", "$12.50", "€12.5", "12 £", "¥1200", "₹ 99.9 approx", "USD 7",
     "$5 or €4", "total: 12.", "3. 7", "1,234.56", "-5", "abc", "Infinity", "",
     "€"}

\* the currency argument of normalizeCurrency
DefaultCurrencies == {"USD", "EUR", "CHF"}

\* normalizeCurrency(amount, currency)
ApplyNormalizeCurrency ==
    /\ pc = "idle" /\ fn = "none"
    /\ \E text \in AmountTexts, currency \in DefaultCurrencies :
          /\ arg' = [amount |-> text, currency |-> currency]
          /\ result' = normalizeCurrency(text, currency)
    /\ fn' = "normalizeCurrency"
    /\ UNCHANGED <<pipeVars, merchVars, sideVars>>

\* the alphabet of buffer.toString("base64")
Base64Chars == "ABCDEFGHIJKLMNOPQRSTUVWXYZabcdefghijklmnopqrstuvwxyz0123456789+/"

Base64Char(v) == Char(Base64Chars, v + 1)

\* buffer.toString("base64") of the bytes from position i on: three bytes
\* give four characters, a last group of one or two bytes is padded with "="
RECURSIVE Base64From(_, _)
Base64From(b, i) ==
    IF i > Len(b) THEN ""
    ELSE IF i = Len(b)
    THEN Base64Char(b[i] \div 4) \o Base64Char((b[i] % 4) * 16) \o "=="
    ELSE IF i + 1 = Len(b)
    THEN Base64Char(b[i] \div 4)
         \o Base64Char((b[i] % 4) * 16 + b[i + 1] \div 16)
         \o Base64Char((b[i + 1] % 16) * 4) \o "="
    ELSE Base64Char(b[i] \div 4)
         \o Base64Char((b[i] % 4) * 16 + b[i + 1] \div 16)
         \o Base64Char((b[i + 1] % 16) * 4 + b[i + 2] \div 64)
         \o Base64Char(b[i + 2] % 64)
         \o Base64From(b, i + 3)

\* a variant of IsImageType that looks for "image/" anywhere in the type
MentionsImageType(contentType) == Includes(contentType, "image/")

\* contentType.startsWith("image/")
IsImageType(contentType) == StartsWithAt(contentType, 1, "image/")

\* imageUrlToBase64 on the outcome of fetch(imageUrl): the fetch or the
\* reading of the body may reject; headers.get gives null for a header that
\* is absent
imageUrlToBase64(r) ==
    IF r.rejects THEN [ok |-> FALSE, error |-> "fetch", url |-> ""]
    ELSE IF ~(r.status \in 200..299) THEN [ok |-> FALSE, error |-> "status", url |-> ""]
    ELSE IF r.bodyFails THEN [ok |-> FALSE, error |-> "body", url |-> ""]
    ELSE Only({ IF ~IsImageType(contentType)
                THEN [ok |-> FALSE, error |-> "type", url |-> ""]
                ELSE [ok |-> TRUE, error |-> "",
                      url |-> "data:" \o contentType \o ";base64,"
                              \o Base64From(r.body, 1)]
                : contentType \in {IF Falsy(r.contentType) THEN "image/jpeg"
                                   ELSE r.contentType.s} })

\* outcomes of fetch(imageUrl): bodies are the bytes of "", "f", "fo", "foo"
\* and "foob"
FetchOutcomes ==
    [rejects : BOOLEAN, status : {200, 204, 304, 404, 500}, bodyFails : BOOLEAN,
     contentType : {Undef, Str(""), Str("image/png"), Str("image/svg+xml; charset=utf-8"),
                    Str("text/html"), Str("application/pdf"), Str("Image/PNG"),
                    Str("text/plain; note=image/png")},
     body : {<<>>, <<102>>, <<102, 111>>, <<102, 111, 111>>, <<102, 111, 111, 98>>}]

\* imageUrlToBase64(imageUrl)
ApplyImageUrlToBase64 ==
    /\ pc = "idle" /\ fn = "none"
    /\ \E r \in FetchOutcomes :
          /\ arg' = r
          /\ result' = imageUrlToBase64(r)
    /\ fn' = "imageUrlToBase64"
    /\ UNCHANGED <<pipeVars, merchVars, sideVars>>

NextFunctions ==
    \/ ApplyValidateAndFixDate
    \/ ApplyParseDateRobust
    \/ ApplyNormalizeCurrency
    \/ ApplyImageUrlToBase64

SpecFunctions == InitFunctions /\ [][NextFunctions]_vars

-----------------------------------------------------------------------------
(* The queued OCR route: POST /api/ocr of src/app/api/ocr/route.ts, lines  *)
(* 113 to 208, one request                                                 *)

\* `ocr:${userId}:${sanitizedFileUrl}`
CacheKey(userId, url) == "ocr:" \o userId \o ":" \o url

\* sanitized file URLs of requests
QueuedUrls == {"https://cdn.example/a.jpg", "https://cdn.example/b.jpg"}

\* a cached OCR result: a JSON text that parses to these fields
CachedData ==
    [merchant_name |-> "Starbucks", amount |-> Fin(450), currency |-> "USD",
     receipt_date |-> "2026-11-01", category |-> "Meals", confidence |-> ScoreHigh,
     needs_review |-> FALSE, is_duplicate |-> FALSE,
     extraction_notes |-> "Extracted using AI vision"]

NoData == [merchant_name |-> ""]

\* cache entries: results of the session's user and of another user, and a
\* value that is not JSON
CacheEntries ==
    { [key |-> CacheKey(SessionUser, "https://cdn.example/a.jpg"),
       value |-> [parses |-> TRUE, data |-> CachedData]],
      [key |-> CacheKey("user-2", "https://cdn.example/b.jpg"),
       value |-> [parses |-> TRUE, data |-> CachedData]],
      [key |-> CacheKey(SessionUser, "https://cdn.example/b.jpg"),
       value |-> [parses |-> FALSE, data |-> NoData]] }

\* receipts the store may hold before the request
OldReceipts ==
    { [id |-> 1, userId |-> SessionUser, status |-> "completed",
       fileUrl |-> "https://cdn.example/a.jpg", fileName |-> "receipt.jpg",
       merchantName |-> "Starbucks", category |-> "Meals"] }

InitQueued ==
    /\ \E c \in Clocks : now = c.now /\ tz = c.tz
    /\ filename = "" /\ pc = "q_session"
    /\ reply = NoReply /\ lenientEng = FALSE /\ path = "none"
    /\ extracted = NoRecord /\ failure = "none" /\ thrown = FALSE
    /\ modelCalls = 0 /\ response = NoResponse
    /\ store \in SUBSET OldReceipts /\ lookup = "none" /\ keyManager = FALSE
    /\ MerchIdle
    /\ FunIdle
    /\ cache \in SUBSET CacheEntries /\ queue = {} /\ req = NoRequest
    /\ CompanyIdle

\* a return of the queued route that touches neither store nor queue
QRespond(kind) ==
    /\ response' = [kind |-> kind]
    /\ pc' = "done"
    /\ UNCHANGED <<store, queue, req>>

\* const session = await getSession(); if (!session) return unauthorized()
QGetSession ==
    /\ pc = "q_session"
    /\ \/ QRespond("unauthorized")
       \/ QRespond("server_error")
       \/ pc' = "q_validate" /\ UNCHANGED <<response, store, queue, req>>
    /\ UNCHANGED <<now, tz, filename, reply, lenientEng, path, extracted, failure,
                   thrown, modelCalls, lookup, keyManager, cache, merchVars,
                   funVars, companyVars>>

\* request.json(), ocrRequestSchema.safeParse(body), sanitizeUrl and
\* sanitizeText
QValidateAndSanitize ==
    /\ pc = "q_validate"
    /\ \/ QRespond("server_error")
       \/ QRespond("validation_error")
       \/ QRespond("bad_request")
       \/ /\ \E url \in QueuedUrls, fname \in {"", "receipt.jpg"} :
                req' = [url |-> url, fname |-> fname, userId |-> SessionUser,
                        cached |-> [parses |-> FALSE, data |-> NoData],
                        hit |-> FALSE, receiptId |-> 0]
          /\ pc' = "q_cache"
          /\ UNCHANGED <<response, store, queue>>
    /\ UNCHANGED <<now, tz, filename, reply, lenientEng, path, extracted, failure,
                   thrown, modelCalls, lookup, keyManager, cache, merchVars,
                   funVars, companyVars>>

\* a variant of AfterCacheGet that never uses the cached result
AfterCacheGetIgnoring(found) == "q_miss"

\* if (cachedResult) { ... } : where the request goes after redis.get
AfterCacheGet(found) == IF found THEN "q_hit" ELSE "q_miss"

\* const cachedResult = await redis.get(cacheKey)
QCacheGet ==
    /\ pc = "q_cache"
    /\ \/ QRespond("server_error")
       \/ \E found \in {{ e \in cache : e.key = CacheKey(req.userId, req.url) }} :
             /\ req' = [req EXCEPT !.hit = found # {},
                                   !.cached = IF found = {} THEN req.cached
                                              ELSE (CHOOSE e \in found : TRUE).value]
             /\ pc' = AfterCacheGet(found # {})
             /\ UNCHANGED <<response, store, queue>>
    /\ UNCHANGED <<now, tz, filename, reply, lenientEng, path, extracted, failure,
                   thrown, modelCalls, lookup, keyManager, cache, merchVars,
                   funVars, companyVars>>

\* the id the store gives to a created receipt
NewReceiptId(receipts) == Cardinality(receipts \cup OldReceipts) + 1

\* JSON.parse(cachedResult), prisma.receipt.create({ status: "completed" })
\* and the response "Receipt processed from cache"
QCreateFromCache ==
    /\ pc = "q_hit"
    /\ \/ /\ ~req.cached.parses
          /\ QRespond("server_error")
       \/ /\ req.cached.parses
          /\ \/ QRespond("server_error")
             \/ \E id \in {NewReceiptId(store)} :
                   /\ store' = store \cup
                        {[id |-> id, userId |-> req.userId, status |-> "completed",
                          fileUrl |-> req.url, fileName |-> req.fname,
                          merchantName |-> req.cached.data.merchant_name,
                          category |-> req.cached.data.category]}
                   /\ response' = [kind |-> "success", status |-> "completed",
                                   receipt_id |-> id,
                                   extracted_data |-> req.cached.data]
                   /\ req' = [req EXCEPT !.receiptId = id]
                   /\ pc' = "done"
                   /\ UNCHANGED queue
    /\ UNCHANGED <<now, tz, filename, reply, lenientEng, path, extracted, failure,
                   thrown, modelCalls, lookup, keyManager, cache, merchVars,
                   funVars, companyVars>>

\* prisma.receipt.create({ status: "pending" })
QCreatePending ==
    /\ pc = "q_miss"
    /\ \/ QRespond("server_error")
       \/ \E id \in {NewReceiptId(store)} :
             /\ store' = store \cup
                  {[id |-> id, userId |-> req.userId, status |-> "pending",
                    fileUrl |-> req.url, fileName |-> req.fname,
                    merchantName |-> "Processing...", category |-> "Other"]}
             /\ req' = [req EXCEPT !.receiptId = id]
             /\ pc' = "q_publish"
             /\ UNCHANGED <<response, queue>>
    /\ UNCHANGED <<now, tz, filename, reply, lenientEng, path, extracted, failure,
                   thrown, modelCalls, lookup, keyManager, cache, merchVars,
                   funVars, companyVars>>

\* await qstashClient.publishJSON({ body: { receiptId: receipt.id, ... } })
\* and the response "Receipt queued for processing"; a rejection reaches the
\* handler's catch, which answers 500
QPublish ==
    /\ pc = "q_publish"
    /\ \/ QRespond("server_error")
       \/ /\ queue' = queue \cup
                {[receiptId |-> req.receiptId, userId |-> req.userId,
                  file_url |-> req.url, filename |-> req.fname]}
          /\ response' = [kind |-> "success", status |-> "processing",
                          receipt_id |-> req.receiptId]
          /\ pc' = "done"
          /\ UNCHANGED <<store, req>>
    /\ UNCHANGED <<now, tz, filename, reply, lenientEng, path, extracted, failure,
                   thrown, modelCalls, lookup, keyManager, cache, merchVars,
                   funVars, companyVars>>

NextQueued ==
    \/ QGetSession
    \/ QValidateAndSanitize
    \/ QCacheGet
    \/ QCreateFromCache
    \/ QCreatePending
    \/ QPublish

SpecQueued == InitQueued /\ [][NextQueued]_vars

-----------------------------------------------------------------------------
(* Company settings: POST and DELETE of /api/company-settings, part_001    *)
(* lines 173 to 374. Requests run concurrently; a request gives up control *)
(* at each awaited store operation, so one step is one store operation.    *)

\* concurrent requests
NumRequests == 2

\* rows of prisma.companySettings before the requests: at most one default
\* per user
SettingRows ==
    { [id |-> 1, userId |-> SessionUser, companyName |-> "default", isDefault |-> TRUE],
      [id |-> 2, userId |-> SessionUser, companyName |-> "Acme", isDefault |-> FALSE],
      [id |-> 3, userId |-> "user-2", companyName |-> "default", isDefault |-> TRUE] }

\* a request that has not been received
IdleProc ==
    [op |-> "none", pc |-> "start", userId |-> "", name |-> "", company |-> "",
     isDefault |-> FALSE, id |-> 0, found |-> 0, wasDefault |-> FALSE,
     next |-> 0, status |-> 0]

InitCompany ==
    /\ PipelineIdle
    /\ MerchIdle
    /\ FunIdle
    /\ QueueIdle
    /\ settings \in SUBSET SettingRows
    /\ procs = [i \in 1..NumRequests |-> IdleProc]
    /\ nextId = Cardinality(SettingRows) + 1

\* the rows of a user
SettingsOf(rows, userId) == { r \in rows : r.userId = userId }

\* request i returns a response with this status
Answer(i, status) ==
    procs' = [procs EXCEPT ![i].pc = "done", ![i].status = status]

\* an awaited store operation rejects: the handler's catch answers 500
StoreRejects(i) ==
    /\ Answer(i, 500)
    /\ UNCHANGED <<settings, nextId>>

\* POST: getSession, request.json, the defaults of the body and the basic
\* validation
PostStart(i) ==
    /\ procs[i].op = "none"
    /\ \/ \E status \in {401, 500, 400} :
             procs' = [procs EXCEPT ![i].op = "POST", ![i].pc = "done",
                                    ![i].status = status]
       \/ \E name \in {"default", "Acme"}, company \in {"default", "Acme"},
             is_default \in BOOLEAN :
             procs' = [procs EXCEPT ![i] =
                         [IdleProc EXCEPT !.op = "POST",
                                          !.pc = IF is_default THEN "clear" ELSE "find",
                                          !.userId = SessionUser,
                                          !.name = name, !.company = company,
                                          !.isDefault = is_default]]
    /\ UNCHANGED <<settings, nextId>>

\* POST: updateMany({ where: { userId }, data: { isDefault: false } })
PostClearDefaults(i) ==
    /\ procs[i].op = "POST" /\ procs[i].pc = "clear"
    /\ \/ StoreRejects(i)
       \/ /\ settings' = { IF r.userId = procs[i].userId
                           THEN [r EXCEPT !.isDefault = FALSE] ELSE r
                           : r \in settings }
          /\ procs' = [procs EXCEPT ![i].pc = "find"]
          /\ UNCHANGED nextId

\* POST: findFirst({ where: { userId, companyName: setting_name } }); no
\* orderBy, so any matching row may be the one returned
PostFindExisting(i) ==
    /\ procs[i].op = "POST" /\ procs[i].pc = "find"
    /\ \/ StoreRejects(i)
       \/ /\ \E matches \in {{ r \in SettingsOf(settings, procs[i].userId) :
                                r.companyName = procs[i].name }} :
                \/ /\ matches = {}
                   /\ procs' = [procs EXCEPT ![i].pc = "write", ![i].found = 0]
                \/ \E r \in matches :
                      procs' = [procs EXCEPT ![i].pc = "write", ![i].found = r.id]
          /\ UNCHANGED <<settings, nextId>>

\* POST: update({ where: { id: existingSetting.id } }) or create, then the
\* success response; update of a row that is gone rejects
PostWrite(i) ==
    /\ procs[i].op = "POST" /\ procs[i].pc = "write"
    /\ \/ StoreRejects(i)
       \/ /\ procs[i].found # 0
          /\ \A r \in settings : r.id # procs[i].found
          /\ StoreRejects(i)
       \/ /\ procs[i].found # 0
          /\ \E r \in settings : r.id = procs[i].found
          /\ settings' = { IF r.id = procs[i].found
                           THEN [r EXCEPT !.companyName = procs[i].company,
                                          !.isDefault = procs[i].isDefault]
                           ELSE r : r \in settings }
          /\ Answer(i, 200)
          /\ UNCHANGED nextId
       \/ /\ procs[i].found = 0
          /\ settings' = settings \cup
                {[id |-> nextId, userId |-> procs[i].userId,
                  companyName |-> procs[i].company,
                  isDefault |-> procs[i].isDefault]}
          /\ nextId' = nextId + 1
          /\ Answer(i, 200)

\* DELETE: getSession, searchParams.get("id"), parseInt
DeleteStart(i) ==
    /\ procs[i].op = "none"
    /\ \/ \E status \in {401, 500, 400} :
             procs' = [procs EXCEPT ![i].op = "DELETE", ![i].pc = "done",
                                    ![i].status = status]
       \/ \E id \in { r.id : r \in SettingRows } :
             procs' = [procs EXCEPT ![i] =
                         [IdleProc EXCEPT !.op = "DELETE", !.pc = "lookup",
                                          !.userId = SessionUser, !.id = id]]
    /\ UNCHANGED <<settings, nextId>>

\* DELETE: findFirst({ where: { id, userId } }); 404 if there is none
DeleteFindSetting(i) ==
    /\ procs[i].op = "DELETE" /\ procs[i].pc = "lookup"
    /\ \/ StoreRejects(i)
       \/ /\ \E found \in {{ r \in SettingsOf(settings, procs[i].userId) :
                              r.id = procs[i].id }} :
                IF found = {} THEN Answer(i, 404)
                ELSE \E r \in found :
                        procs' = [procs EXCEPT ![i].pc = "count",
                                               ![i].wasDefault = r.isDefault]
          /\ UNCHANGED <<settings, nextId>>

\* DELETE: count({ where: { userId } }); 400 if totalSettings <= 1
DeleteCount(i) ==
    /\ procs[i].op = "DELETE" /\ procs[i].pc = "count"
    /\ \/ StoreRejects(i)
       \/ /\ IF Cardinality(SettingsOf(settings, procs[i].userId)) <= 1
             THEN Answer(i, 400)
             ELSE procs' = [procs EXCEPT ![i].pc = IF procs[i].wasDefault
                                                   THEN "next" ELSE "delete"]
          /\ UNCHANGED <<settings, nextId>>

\* DELETE: findFirst({ where: { userId, id: { not: id } }, orderBy: { id: "asc" } })
DeleteFindNext(i) ==
    /\ procs[i].op = "DELETE" /\ procs[i].pc = "next"
    /\ \/ StoreRejects(i)
       \/ /\ \E others \in {{ r.id : r \in { q \in SettingsOf(settings, procs[i].userId) :
                                             q.id # procs[i].id } }} :
                IF others = {}
                THEN procs' = [procs EXCEPT ![i].pc = "delete", ![i].next = 0]
                ELSE procs' = [procs EXCEPT
                                 ![i].pc = "promote",
                                 ![i].next = CHOOSE m \in others :
                                                \A o \in others : m <= o]
          /\ UNCHANGED <<settings, nextId>>

\* DELETE: update({ where: { id: nextDefaultSetting.id }, data: { isDefault: true } })
DeletePromote(i) ==
    /\ procs[i].op = "DELETE" /\ procs[i].pc = "promote"
    /\ \/ StoreRejects(i)
       \/ /\ \A r \in settings : r.id # procs[i].next
          /\ StoreRejects(i)
       \/ /\ \E r \in settings : r.id = procs[i].next
          /\ settings' = { IF r.id = procs[i].next
                           THEN [r EXCEPT !.isDefault = TRUE] ELSE r
                           : r \in settings }
          /\ procs' = [procs EXCEPT ![i].pc = "delete"]
          /\ UNCHANGED nextId

\* DELETE: delete({ where: { id } }) and the success response
DeleteRow(i) ==
    /\ procs[i].op = "DELETE" /\ procs[i].pc = "delete"
    /\ \/ StoreRejects(i)
       \/ /\ \A r \in settings : r.id # procs[i].id
          /\ StoreRejects(i)
       \/ /\ \E r \in settings : r.id = procs[i].id
          /\ settings' = { r \in settings : r.id # procs[i].id }
          /\ Answer(i, 200)
          /\ UNCHANGED nextId

NextCompany ==
    /\ \E i \in 1..NumRequests :
          \/ PostStart(i)
          \/ PostClearDefaults(i)
          \/ PostFindExisting(i)
          \/ PostWrite(i)
          \/ DeleteStart(i)
          \/ DeleteFindSetting(i)
          \/ DeleteCount(i)
          \/ DeleteFindNext(i)
          \/ DeletePromote(i)
          \/ DeleteRow(i)
    /\ UNCHANGED <<pipeVars, merchVars, funVars, queueVars>>

SpecCompany == InitCompany /\ [][NextCompany]_vars

-----------------------------------------------------------------------------
(* Properties                                                              *)

\* the day number of the date a YYYY-MM-DD text names
DayOfDateText(d) ==
    DaysFromCivil(StrToNat(SubSeq(d, 1, 4)), StrToNat(SubSeq(d, 6, 7)),
                  StrToNat(SubSeq(d, 9, 10)))

\* the date lies between the day of oneYearAgo and the day of tomorrow
DateWithinWindow(d, today) ==
    /\ IsIsoDateForm(d)
    /\ DayOfDateText(d) >= OneYearAgo(today) \div 24
    /\ DayOfDateText(d) <= Tomorrow(today) \div 24

\* a YYYY-MM-DD text that names a day the calendar has
IsCalendarDate(d) ==
    /\ IsIsoDateForm(d)
    /\ StrToNat(SubSeq(d, 6, 7)) \in 1..12
    /\ StrToNat(SubSeq(d, 9, 10)) \in
          1..DaysInMonth(StrToNat(SubSeq(d, 1, 4)), StrToNat(SubSeq(d, 6, 7)))

\* the dates the random branch of generateReasonableDate can produce
RecentDates(today) == { ToISODate(today - 24 * k) : k \in 0..(RandomDayRange - 1) }

\* the records enhancedPatternExtraction can return for the request
FallbackRecords ==
    { enhancedPatternExtraction(filename, now, d, r1, r2) :
        d \in DaysAgoDraws, r1 \in RandDraws, r2 \in RandDraws }

ClosedCategories == {"Meals", "Travel", "Supplies", "Other"}

\* C1: aiOCRExtraction never lets an error reach its caller, and after every
\* failure of the image fetch (rejected, non-OK status, non-image content
\* type), of the model call (error, abort, no choices, empty content) or of
\* the parsing of the reply, the record it returns is one the pattern
\* fallback produces for the filename.
C1_FailuresFallBack ==
    /\ ~thrown
    /\ failure # "none" =>
          /\ path = "fallback"
          /\ pc \in {"normalize", "done"}
          /\ extracted \in FallbackRecords

\* C1, reached: the model call was aborted and the fallback record came back
C1_AbortFellBack ==
    /\ failure = "model_abort"
    /\ path = "fallback"
    /\ extracted.date_source = "estimated"
    /\ response.kind = "success"

\* C2: on both paths the receipt_date of the returned record lies within
\* the plausibility window, oneYearAgo <= receipt_date <= tomorrow, relative
\* to the evaluation date, dates taken from the filename included.
C2_DateInWindow ==
    extracted # NoRecord => DateWithinWindow(extracted.receipt_date, now)

\* C3: the category of every returned record, and of every response, is one
\* of Meals, Travel, Supplies, Other on either path, every entry of the
\* keyword table included, and a reply category outside the set becomes Other.
C3_CategoryClosed ==
    /\ \A k \in 1..Len(merchantPatterns) :
          merchantPatterns[k].category \in ClosedCategories
    /\ extracted # NoRecord => extracted.category \in ClosedCategories
    /\ response.kind = "success" => response.category \in ClosedCategories
    /\ (path = "vision" /\ reply.fields.category \notin { Str(c) : c \in ClosedCategories })
          => extracted.category = "Other"

\* C3, reached: a reply with the category Gadgets gave a record with Other
C3_GadgetsCoerced ==
    /\ path = "vision"
    /\ reply.fields.category = Str("Gadgets")
    /\ extracted.category = "Other"
    /\ response.kind = "success"

\* C4: in every response of the route the numeric confidence is 0.9 for
\* high, 0.7 for medium and 0.5 otherwise, a reply confidence outside
\* {high, medium, low} having been coerced to medium, and needs_review equals
\* (confidence < 0.72): it is false only for high.
C4_ConfidenceMapping ==
    /\ (path = "vision" /\ reply.fields.confidence \notin {Str("high"), Str("medium"), Str("low")})
          => extracted.confidence = "medium"
    /\ path = "vision" => extracted.confidence \in {"high", "medium", "low"}
    /\ response.kind = "success" =>
          /\ extracted.confidence = "high" => response.confidence = 90
          /\ extracted.confidence = "medium" => response.confidence = 70
          /\ extracted.confidence \notin {"high", "medium"} => response.confidence = 50
          /\ response.needs_review = (response.confidence < 72)
          /\ response.needs_review = (extracted.confidence # "high")

\* C4, reached: the reply confidence "certain" was scored 0.7 and flagged
C4_InvalidScoredMedium ==
    /\ response.kind = "success"
    /\ path = "vision"
    /\ reply.fields.confidence = Str("certain")
    /\ response.confidence = 70
    /\ response.needs_review

\* C5: every record of the pattern fallback has date_source estimated and a
\* confidence of medium or low, never high, and the route sets needs_review
\* for it.
C5_FallbackFlagged ==
    path = "fallback" =>
        /\ extracted.date_source = "estimated"
        /\ extracted.confidence \in {"medium", "low"}
        /\ response.kind = "success" => response.needs_review

\* C5, reached: a fallback record with a random recent date, flagged
C5_RandomDateFlagged ==
    /\ path = "fallback"
    /\ extracted.confidence = "low"
    /\ response.kind = "success"
    /\ response.needs_review
    /\ response.confidence = 50

\* C6: the amount of the record aiOCRExtraction returns is a finite number
\* >= 0 whatever the reply carries in its amount field, and an amount that
\* does not parse gives 0.
C6_AmountFiniteNonNegative ==
    extracted # NoRecord =>
        /\ IsFinite(extracted.amount)
        /\ extracted.amount.c >= 0
        /\ (path = "vision" /\ reply.fields.amount \in {Str("abc"), Undef})
              => extracted.amount = Fin(0)

\* C7: the receipt_date of every returned record is a YYYY-MM-DD text that
\* names an existing calendar date (month 1..12, day within the month), also
\* when it comes from a filename pattern such as 2024-02-31.
C7_DateExists ==
    extracted # NoRecord => IsCalendarDate(extracted.receipt_date)

\* C8: normalizeMerchant is idempotent: for every input x, tabs, line
\* breaks, several noise suffixes and the empty string included,
\* normalizeMerchant(normalizeMerchant(x)) = normalizeMerchant(x).
C8_Idempotent == mStage = 2 => mAgain = mOut

\* C9: when the reply parses and its receipt_date is unparseable or outside
\* the window, the record stays on the vision path (date_source ai_vision),
\* keeps the reply's category and amount ("12.50" gives 12.5), the merchant
\* "UBER" is normalised to "Uber", and the date is the filename-derived or
\* randomized fallback date.
C9_DateReplacedRestKept ==
    (/\ path = "vision"
     /\ response.kind = "success"
     /\ ~InWindow(ParsedDate(reply.fields.receipt_date, lenientEng), now))
    =>
        /\ extracted.date_source = "ai_vision"
        /\ extracted.category = CoerceCategory(reply.fields.category)
        /\ response.category = extracted.category
        /\ reply.fields.amount = Str("12.50") =>
              extracted.amount = Fin(1250) /\ response.amount = Fin(1250)
        /\ reply.fields.merchant_name = Str("UBER") => response.merchant_name = "Uber"
        /\ extracted.receipt_date \in
              { generateReasonableDate(filename, now, d).date : d \in DaysAgoDraws }

\* C10: with a failing service and a filename that holds a table keyword
\* and a YYYY-MM-DD date d, the fallback record has the keyword's canonical
\* merchant name and category; its date is d, with confidence medium, when
\* d lies within the window, and a randomized recent date otherwise.
C10_FilenameDateWithinWindow ==
    path = "fallback" =>
        \A k \in {MatchedIndex(ToLowerCase(filename))} :
        \A f \in {ReFileYMD(filename)} :
            (k # 0 /\ f.found) =>
                /\ extracted.merchant_name = merchantPatterns[k].name
                /\ extracted.category = merchantPatterns[k].category
                /\ \A d \in {FormatYMD(StrToNat(f.g1), StrToNat(f.g2), StrToNat(f.g3))} :
                      IF DateWithinWindow(d, now)
                      THEN extracted.receipt_date = d /\ extracted.confidence = "medium"
                      ELSE extracted.receipt_date \in RecentDates(now)


\* the receipts of the store that a verdict of the lookup speaks about: same
\* user, merchant name, amount and receipt date as the response, created
\* less than ninety days before the request
MatchingReceipts ==
    { r \in store : /\ r.userId = SessionUser
                    /\ r.merchantName = response.merchant_name
                    /\ r.amount = response.amount
                    /\ r.receiptDate = DayOfDateText(response.receipt_date) * 24
                    /\ now - r.createdAt < NinetyDays * 24 }

\* C11: checkForDuplicate answers true only when the store holds a receipt
\* of the same user, merchant name, amount and receipt date created within
\* the trailing ninety days; it answers false when there is none and when
\* the lookup fails, and the failure does not escape it.
C11_DuplicateVerdict ==
    lookup # "none" =>
        /\ response.kind = "success"
        /\ response.is_duplicate => MatchingReceipts # {}
        /\ lookup = "absent" => MatchingReceipts = {} /\ ~response.is_duplicate
        /\ lookup = "failed" => ~response.is_duplicate

\* a lookup that found a duplicate, in a store that also holds a receipt
\* that differs only by being older than ninety days
C11_DuplicateFound ==
    /\ lookup = "found"
    /\ response.is_duplicate
    /\ \E r \in store : r.userId = SessionUser /\ now - r.createdAt > NinetyDays * 24


ModelFailures == {"model_error", "model_abort", "no_choices", "empty_content", "parse"}

\* C12: within one request the external model is called at most once: a
\* failure of the call or of its reply is never followed by a second call,
\* and the request goes on with the record of the pattern fallback.
C12_ModelCalledAtMostOnce ==
    /\ modelCalls <= 1
    /\ failure \in ModelFailures =>
           /\ modelCalls = 1
           /\ pc \in {"normalize", "done"}
           /\ path = "fallback"
           /\ extracted \in FallbackRecords

\* a request whose only model call was rejected and that was answered
C12_RejectedCallAnswered ==
    /\ failure = "model_error"
    /\ modelCalls = 1
    /\ pc = "done"
    /\ response.kind = "success"


\* C13: a request leaves the record store as it was at every step, the
\* duplicate lookup included; of the process-wide state, the only change is
\* that the first model call under withKeyProtection creates the
\* KeySecurityManager instance, which is then kept.
C13_StoreUnchanged ==
    [][/\ store' = store
       /\ keyManager' # keyManager => pc = "model" /\ ~keyManager /\ keyManager']_vars

\* the statement without the exception: neither the record store nor the
\* process-wide state changes
C13_NothingChanged == [][store' = store /\ keyManager' = keyManager]_vars

\* a request answered after a lookup that found a receipt, with the store
\* still holding the receipts it held at the start
C13_LookedUpAndKept ==
    /\ lookup = "found"
    /\ modelCalls = 1
    /\ store = ReceiptsAt(now)


\* C14: the duplicate verdict never blocks a submission: whether the lookup
\* found a receipt, found none or failed, the route answers with success,
\* the response carries the whole normalised record, and its is_duplicate
\* is the verdict.
C14_VerdictNeverBlocks ==
    (pc = "done" /\ extracted # NoRecord) =>
        /\ response.kind = "success"
        /\ lookup \in {"found", "absent", "failed"}
        /\ response.is_duplicate = (lookup = "found")
        /\ response = ProcessedData(extracted, lookup = "found")

\* a vision record found to be a duplicate and answered with success
C14_DuplicateAnswered ==
    /\ pc = "done"
    /\ path = "vision"
    /\ lookup = "found"
    /\ response.kind = "success"
    /\ response.is_duplicate
    /\ response.merchant_name = "UBER"


\* the calendar date of a parsed Date, read where the parse placed it: the
\* ISO date-only form is placed at UTC midnight, every other form at local
\* midnight
CalendarDateOf(v, parsed) ==
    IF IsIsoDateForm(v.s) THEN ToISODate(parsed)
    ELSE Only({ FormatYMD(c.y, c.m, c.d) : c \in {LocalFields(parsed)} })

\* C15: validateAndFixDate answers with confidence high exactly when the
\* date text parsed (natively, else as MM/DD/YYYY, else as MM-DD-YYYY) to a
\* date between oneYearAgo and tomorrow, and then returns that same calendar
\* date; every other result is medium when the date is the filename's and
\* low when it is a random recent day.
C15_HighIsTheParsedDate ==
    fn = "validateAndFixDate" =>
        \E parsed \in {ParsedDate(arg.dateString, arg.lenient)} :
            /\ (result.confidence = "high") <=> InWindow(parsed, now)
            /\ result.confidence = "high" =>
                   result.date = CalendarDateOf(arg.dateString, parsed)
            /\ result.confidence # "high" =>
                   /\ result.confidence \in {"medium", "low"}
                   /\ result.confidence = "medium" =>
                          ReFileYMD(arg.filename).found \/ ReFileMDY(arg.filename).found
                   /\ result.confidence = "low" => result.date \in RecentDates(now)


\* C16: a reply that holds a well-formed JSON object, whatever text stands
\* before and after it (text with braces or a second object included), is
\* parsed and answered with the vision record of that object; only a reply
\* that holds no object leads to the fallback.
C16_FirstObjectParsed ==
    reply # NoReply =>
        /\ reply.hasObject <=> path = "vision"
        /\ ~reply.hasObject <=> (path = "fallback" /\ failure = "parse")
        /\ reply.hasObject =>
               /\ extracted.date_source = "ai_vision"
               /\ extracted.merchant_name = CoerceMerchant(reply.fields.merchant_name)
               /\ extracted.category = CoerceCategory(reply.fields.category)


\* the table entries whose keyword occurs in the lower-cased filename
KeywordHits ==
    { k \in 1..Len(merchantPatterns) :
        Includes(ToLowerCase(filename), merchantPatterns[k].pattern) }

\* C17: the fallback names the merchant and the category of the first table
\* entry, in table order, whose keyword occurs in the lower-cased filename
\* (a filename with both "starbucks" and "coffee" yields Starbucks), and
\* with no keyword it answers Unknown Merchant, Other and an amount drawn
\* for the range 5 to 50.
C17_FirstKeywordInTableOrder ==
    path = "fallback" =>
        \E hits \in {KeywordHits} :
            /\ hits # {} =>
                   \E k \in hits :
                       /\ \A j \in hits : k <= j
                       /\ extracted.merchant_name = merchantPatterns[k].name
                       /\ extracted.category = merchantPatterns[k].category
            /\ hits = {} =>
                   /\ extracted.merchant_name = "Unknown Merchant"
                   /\ extracted.category = "Other"
                   /\ \E r1 \in RandDraws, r2 \in RandDraws :
                          extracted.amount = SynthAmount(5, 50, r1, r2)
            /\ ({1, 2} \subseteq hits) => extracted.merchant_name = "Starbucks"

\* a fallback record for a filename that holds "coffee" before "starbucks"
C17_StarbucksBeforeCoffee ==
    /\ path = "fallback"
    /\ filename = "Coffee_Starbucks_11-04-2026.jpg"
    /\ extracted.merchant_name = "Starbucks"


\* the range of the table entry the fallback matched, or the default range
MatchedRange ==
    Only({ IF hits = {} THEN [min |-> 5, max |-> 50]
           ELSE Only({ [min |-> merchantPatterns[k].min, max |-> merchantPatterns[k].max]
                       : k \in {CHOOSE k \in hits : \A j \in hits : k <= j} })
           : hits \in {KeywordHits} })

\* C18: the amount the fallback synthesizes for the matched range [min, max]
\* is a whole number of cents with min <= amount < max + 0.01, whatever the
\* random draws.
C18_AmountWithinRange ==
    path = "fallback" =>
        \E range \in {MatchedRange} :
            /\ extracted.amount.k = "fin"
            /\ 100 * range.min <= extracted.amount.c
            /\ extracted.amount.c < 100 * range.max + 1


\* the three fields of a text that is digits, a separator, digits, the same
\* separator, digits; <<>> for any other text
DateFields(s, sep) ==
    Only({ IF Cardinality(at) # 2 THEN <<>>
           ELSE Only({ IF /\ p1 > 1 /\ p2 > p1 + 1 /\ p2 < Len(s)
                          /\ \A i \in (1..Len(s)) \ at : IsDigit(Char(s, i))
                       THEN <<SubSeq(s, 1, p1 - 1), SubSeq(s, p1 + 1, p2 - 1),
                              SubSeq(s, p2 + 1, Len(s))>>
                       ELSE <<>>
                       : <<p1, p2>> \in { <<i, j>> \in at \X at : i < j } })
           : at \in {{ i \in 1..Len(s) : Char(s, i) = sep }} })

\* the reference reading of a date text: YYYY-MM-DD, MM/DD/YYYY, MM-DD-YYYY,
\* MM/DD/YY or MM-DD-YY with two digit years below 50 in 20YY and the others
\* in 19YY, written as YYYY-MM-DD; "" for a text of no form
ReferenceDate(s) ==
    Only({ IF f = <<>> THEN ""
           ELSE IF Len(f[1]) = 4 /\ Len(f[2]) \in {1, 2} /\ Len(f[3]) \in {1, 2}
           THEN IF sep = "-"
                THEN FormatYMD(StrToNat(f[1]), StrToNat(f[2]), StrToNat(f[3]))
                ELSE ""
           ELSE IF Len(f[1]) \in {1, 2} /\ Len(f[2]) \in {1, 2} /\ Len(f[3]) = 4
           THEN FormatYMD(StrToNat(f[3]), StrToNat(f[1]), StrToNat(f[2]))
           ELSE IF Len(f[1]) \in {1, 2} /\ Len(f[2]) \in {1, 2} /\ Len(f[3]) = 2
           THEN FormatYMD(IF StrToNat(f[3]) < 50 THEN 2000 + StrToNat(f[3])
                          ELSE 1900 + StrToNat(f[3]),
                          StrToNat(f[1]), StrToNat(f[2]))
           ELSE ""
           : <<f, sep>> \in { <<IF d # <<>> THEN d ELSE g, IF d # <<>> THEN "-" ELSE "/">>
                              : d \in {DateFields(s, "-")}, g \in {DateFields(s, "/")} } })

\* C19: parseDateRobust agrees with the reference reading on every text: for
\* a text of one of the five forms it returns the YYYY-MM-DD string of the
\* year, month and day the text denotes, it returns null exactly for a text
\* of no form, and then the route keeps the date it was given.
C19_AgreesWithReference ==
    fn = "parseDateRobust" =>
        /\ result.date = ReferenceDate(arg.dateString)
        /\ result.date = "" => result.normalizedDate = arg.dateString
        /\ result.date # "" => result.normalizedDate = result.date


\* the value, in cents, of the first numeric substring of a text: the first
\* run of digits with the point and the digits that follow it, if any; 0
\* for a text without a digit
FirstNumberCents(text) ==
    Only({ IF digits = {} THEN 0
           ELSE Only({ Only({ 100 * StrToNat(SubSeq(text, p, q - 1))
                              + (IF q <= Len(text) /\ Char(text, q) = "."
                                 THEN Only({ IF Len(frac) = 0 THEN 0
                                             ELSE IF Len(frac) = 1 THEN 10 * StrToNat(frac)
                                             ELSE StrToNat(SubSeq(frac, 1, 2))
                                             : frac \in {SubSeq(text, q + 1,
                                                          q + DigitRun(text, q + 1))} })
                                 ELSE 0)
                              : q \in {p + DigitRun(text, p)} })
                       : p \in {CHOOSE i \in digits : \A j \in digits : i <= j} })
           : digits \in {{ i \in 1..Len(text) : IsDigit(Char(text, i)) }} })

\* the currency symbols and their ISO codes
SymbolCodes == {<<"$", "USD">>, <<"€", "EUR">>, <<"£", "GBP">>, <<"¥", "JPY">>, <<"₹", "INR">>}

\* C20: normalizeCurrency returns as amount the value of the first numeric
\* substring of its input, 0 when there is none; when the input holds one
\* of the symbols $, €, £, ¥, ₹ it returns that symbol and its ISO code,
\* and when it holds none it returns the caller's default currency together
\* with the symbol "$", whatever the default is.
C20_CurrencyNormalised ==
    fn = "normalizeCurrency" =>
        \E at \in {{ i \in 1..Len(arg.amount) :
                        \E sc \in SymbolCodes : Char(arg.amount, i) = sc[1] }} :
            /\ result.amount = Fin(FirstNumberCents(arg.amount))
            /\ at # {} =>
                   \E i \in at :
                       /\ \A j \in at : i <= j
                       /\ result.symbol = Char(arg.amount, i)
                       /\ <<result.symbol, result.currency>> \in SymbolCodes
            /\ at = {} =>
                   /\ result.currency = arg.currency
                   /\ result.symbol = "$"

\* an amount in euros normalised under a default of USD
C20_EuroDetected ==
    /\ fn = "normalizeCurrency"
    /\ arg = [amount |-> "€12.5", currency |-> "USD"]
    /\ result = [amount |-> Fin(1250), currency |-> "EUR", symbol |-> "€"]


\* the base64 text of the bodies of the fetch outcomes (RFC 4648, section 10)
Base64Vectors ==
    { <<(<<>>), "">>, <<(<<102>>), "Zg==">>, <<(<<102, 111>>), "Zm8=">>,
      <<(<<102, 111, 111>>), "Zm9v">>, <<(<<102, 111, 111, 98>>), "Zm9vYg==">> }

\* the content type imageUrlToBase64 resolves: image/jpeg for an absent one
ResolvedType(v) == IF v.t = "str" /\ v.s # "" THEN v.s ELSE "image/jpeg"

\* C21: imageUrlToBase64 fails when the HTTP status is not a success and
\* when the resolved content type does not start with "image/"; it succeeds
\* only for a successful response whose content type is an image type or is
\* absent (then taken as image/jpeg), and returns
\* data:<content type>;base64,<body>.
C21_ImageOrFailure ==
    fn = "imageUrlToBase64" =>
        \E type \in {ResolvedType(arg.contentType)} :
            /\ ~(arg.status \in 200..299) => ~result.ok
            /\ SubSeq(type, 1, 6) # "image/" => ~result.ok
            /\ result.ok <=>
                   /\ ~arg.rejects /\ ~arg.bodyFails
                   /\ arg.status \in 200..299
                   /\ SubSeq(type, 1, 6) = "image/"
            /\ result.ok =>
                   \E v \in Base64Vectors :
                       /\ v[1] = arg.body
                       /\ result.url = "data:" \o type \o ";base64," \o v[2]

\* an image fetched without a content type header
C21_AbsentTypeIsJpeg ==
    /\ fn = "imageUrlToBase64"
    /\ arg.contentType = Undef
    /\ result.ok
    /\ result.url = "data:image/jpeg;base64,Zm9v"

\* receipts created by the queued route's request
NewReceipts == store \ OldReceipts

\* the request's key `ocr:${userId}:${sanitizedFileUrl}` is in the cache
KeyPresent == \E e \in cache : e.key = CacheKey(req.userId, req.url)

\* the receipts a request may create from the cached fields
FromCache ==
    { r \in NewReceipts :
        /\ r.status = "completed" /\ r.userId = req.userId /\ r.fileUrl = req.url
        /\ \E e \in cache : /\ e.key = CacheKey(req.userId, req.url)
                            /\ e.value.parses
                            /\ r.merchantName = e.value.data.merchant_name
                            /\ r.category = e.value.data.category }

\* the receipts a request may create for the queue
Pending == { r \in NewReceipts : r.status = "pending" /\ r.userId = req.userId }

\* C22 as stated: a queued request that reached the cache lookup ends with
\* exactly one completed receipt from the cached fields and no job when its
\* key is in the cache, and with exactly one pending receipt and exactly one
\* job carrying that receipt's id when it is not
C22_AlwaysOneReceipt ==
    (pc = "done" /\ req # NoRequest) =>
        IF KeyPresent
        THEN /\ Cardinality(NewReceipts) = 1 /\ FromCache = NewReceipts
             /\ queue = {}
        ELSE /\ Cardinality(NewReceipts) = 1 /\ Pending = NewReceipts
             /\ Cardinality(queue) = 1
             /\ \A j \in queue : \E r \in Pending : j.receiptId = r.id

\* C22, amended: a queued request whose key is in the cache publishes no job
\* and creates at most one receipt, completed and from the cached fields; a
\* request whose key is absent creates at most one receipt, pending, and at
\* most one job, which carries that receipt's id; and whenever the route
\* answers with success the counts are exactly one: one completed receipt
\* and no job on a hit, one pending receipt and one job on a miss
C22_AnsweredFromCacheOrQueued ==
    req # NoRequest =>
        /\ Cardinality(NewReceipts) <= 1
        /\ IF KeyPresent
           THEN /\ FromCache = NewReceipts
                /\ queue = {}
                /\ response.kind = "success" =>
                     /\ Cardinality(NewReceipts) = 1
                     /\ response.status = "completed"
                     /\ \A r \in NewReceipts : response.receipt_id = r.id
           ELSE /\ Pending = NewReceipts
                /\ Cardinality(queue) <= 1
                /\ \A j \in queue : \E r \in Pending : j.receiptId = r.id
                /\ response.kind = "success" =>
                     /\ Cardinality(NewReceipts) = 1
                     /\ Cardinality(queue) = 1
                     /\ response.status = "processing"

\* a request answered from the cache while the store already held a receipt
C22_CacheHitAnswered ==
    /\ pc = "done" /\ req # NoRequest /\ KeyPresent
    /\ response.kind = "success" /\ response.status = "completed"
    /\ store \cap OldReceipts # {} /\ Cardinality(NewReceipts) = 1

\* C23: whenever the vision path replaced the reply's date (it was unparseable
\* or outside the window) by a filename-derived or randomized date, the
\* record returned by the extractor does not have confidence high, and the
\* response has needs_review = TRUE.
C23_ReplacedDateNeedsReview ==
    (/\ path = "vision"
     /\ response.kind = "success"
     /\ ~InWindow(ParsedDate(reply.fields.receipt_date, lenientEng), now))
    =>
        /\ extracted.confidence # "high"
        /\ response.needs_review

\* C24: the route's re-parse step keeps the date the extractor produced: the
\* receipt_date of a successful response (parseDateRobust(d) || d) equals the
\* receipt_date d returned by aiOCRExtraction, at every time-zone offset.
C24_ReparseKeepsDate ==
    (response.kind = "success" /\ extracted # NoRecord) =>
        response.receipt_date = extracted.receipt_date

\* C25: when a request of the queued route has ended, every receipt stored
\* with status pending has a job published for it; no execution, a publish
\* that fails after the insert included, ends with a pending receipt and no
\* job carrying its id.
C25_PendingHasJob ==
    pc = "done" =>
        \A r \in store : r.status = "pending" =>
            \E j \in queue : j.receiptId = r.id /\ j.userId = r.userId

\* no company-settings request is between two of its store operations
Quiescent == \A i \in 1..NumRequests : procs[i].op = "none" \/ procs[i].pc = "done"

\* C26: after any sequence of company-settings POST and DELETE requests,
\* requests of the same user interleaved at their store operations included,
\* each user has at most one setting with isDefault = TRUE.
C26_AtMostOneDefault ==
    Quiescent =>
        \A u \in { r.userId : r \in settings } :
            Cardinality({ r \in SettingsOf(settings, u) : r.isDefault }) <= 1

\* C27: DELETE never leaves a user who had at least one setting with none,
\* also when several DELETE requests of the user interleave between the
\* count check and the delete.
C27_NeverLeftWithNone ==
    [][ (/\ \E i \in 1..NumRequests : procs[i].op = "DELETE" /\ procs'[i].op = "DELETE"
                                      /\ procs[i].pc # procs'[i].pc
         /\ SettingsOf(settings, SessionUser) # {})
        => SettingsOf(settings', SessionUser) # {} ]_vars

\* the answers of the synchronous route's checks
Refusals == {"unauthorized", "rate_limited", "validation_error", "bad_request"}

\* the check that gives each answer
CheckOf(kind) ==
    CASE kind = "unauthorized" -> "session"
      [] kind = "rate_limited" -> "ratelimit"
      [] kind = "validation_error" -> "validate"
      [] kind = "bad_request" -> "sanitize"

\* the checks in the order of the handler, the extraction after them
RouteOrder == <<"session", "body", "ratelimit", "validate", "sanitize", "fetch", "model">>

\* C28: in the synchronous route a request without session, over the rate
\* limit, failing schema validation or with a file URL rejected by
\* sanitisation is answered (unauthorized, 429, validation error, bad request)
\* by its own check and the handler ends there: no image fetch, model call or
\* duplicate lookup has happened or happens for it; the checks run in the
\* order session, rate limit, validation, sanitisation, and the extraction
\* starts only after the last of them.
C28_RefusedBeforeExtraction ==
    [][ /\ response'.kind \in Refusals =>
             /\ pc' = "done"
             /\ response.kind = "none" /\ pc = CheckOf(response'.kind)
             /\ modelCalls' = 0 /\ lookup' = "none" /\ path' = "none"
             /\ failure' = "none" /\ extracted' = NoRecord /\ keyManager' = FALSE
        /\ \A k \in 1..(Len(RouteOrder) - 1) :
             /\ pc = RouteOrder[k] => pc' \in {RouteOrder[k + 1], "done", "normalize"}
             /\ pc' = RouteOrder[k + 1] => pc = RouteOrder[k]
        /\ pc \in {"fetch", "model"} => response.kind = "none" ]_vars

\* a request that passed the session, rate-limit and validation checks and
\* was refused by sanitisation
C28_RefusedBySanitisation ==
    /\ response.kind = "bad_request" /\ pc = "done"
    /\ modelCalls = 0 /\ lookup = "none" /\ path = "none" /\ failure = "none"

=============================================================================
